---------------------------- MODULE Spec2Model ----------------------------
(***************************************************************************)
(* Word-cloud plugin (src/main.ts): renderWordCloud, the renderWords /     *)
(* positionWords layout pass with its deferred hand-off, the spiral        *)
(* placement search, and the timers that drive them.                       *)
(*                                                                         *)
(* Units.  Pixel quantities of the source that are integers (font sizes,   *)
(* label widths and heights, padding, margin, container width and height)  *)
(* are integers here.  Coordinates that the source computes with halves    *)
(* and with cos/sin are kept in hundredths of a pixel (suffix C); the      *)
(* spiral radius is kept in 1/100000 pixel (suffix R).  cos and sin are    *)
(* tabulated in thousandths at the multiples of angleStep.                 *)
(***************************************************************************)
EXTENDS Integers, Sequences, FiniteSets, TLC

VARIABLES
  settings,    \* WordCloudPlugin.settings
  palettes,    \* the colour arrays on the heap; settings.colorPalette is an index
  container,   \* children of the render container, in document order
  calls,       \* closures of the renderWordCloud calls made so far
  passes,      \* closures of the renderWords calls made so far
  timers,      \* pending setTimeout / requestAnimationFrame callbacks
  errors,      \* passes whose deferred callback threw
  sp,          \* the spiral loop of one label, stepped iteration by iteration
  containerOffsetWidth,  \* container.offsetWidth: 0 until the container is laid out
  colorContainer,  \* children of the settings tab's palette container; <<>> until displayed
  saves        \* saveSettings() promises not yet settled, with what awaits them

vars == <<settings, palettes, container, calls, passes, timers, errors, sp,
          containerOffsetWidth, colorContainer, saves>>

-----------------------------------------------------------------------------
(* Bounds of the model *)

MaxCalls == 2          \* renderWordCloud calls in one behaviour
MaxPasses == 3         \* a label is selected only while fewer passes exist
MaxColors == 5         \* a colour is added only while the palette is shorter
MaxArrays == 2         \* the palette is reset only while fewer colour arrays exist
MaxSaves == 2          \* a palette control is used only while fewer saves are pending
MaxWordCount == 75     \* tokens in the longest source of SpecSizing
MaxPhraseWords == 4    \* words in the longest phrase of SpecCasing

-----------------------------------------------------------------------------
(* Characters and strings: a string is a sequence of one-character strings *)

LowerChars ==
  <<"a", "b", "c", "d", "e", "f", "g", "h", "i", "j", "k", "l", "m",
    "n", "o", "p", "q", "r", "s", "t", "u", "v", "w", "x", "y", "z">>
UpperChars ==
  <<"A", "B", "C", "D", "E", "F", "G", "H", "I", "J", "K", "L", "M",
    "N", "O", "P", "Q", "R", "S", "T", "U", "V", "W", "X", "Y", "Z">>

\* LATIN SMALL LETTER SHARP S, written by its code point: a lower-case letter
\* without a one-character upper-case form
SharpS == "U+00DF"

\* c.toUpperCase() for a one-character string c: a string, of two characters
\* for the sharp s (the unconditional mappings of Unicode SpecialCasing)
charToUpperCase(c) ==
  IF \E i \in 1..26 : LowerChars[i] = c
  THEN <<UpperChars[CHOOSE i \in 1..26 : LowerChars[i] = c]>>
  ELSE IF c = SharpS THEN <<"S", "S">>
  ELSE <<c>>

charToLowerCase(c) ==
  IF \E i \in 1..26 : UpperChars[i] = c
  THEN LowerChars[CHOOSE i \in 1..26 : UpperChars[i] = c]
  ELSE c

RECURSIVE toUpperCase(_)
toUpperCase(s) ==
  IF s = <<>> THEN <<>> ELSE charToUpperCase(Head(s)) \o toUpperCase(Tail(s))

toLowerCase(s) == [i \in 1..Len(s) |-> charToLowerCase(s[i])]

\* String.prototype.split with a one-character separator
split(s, sep) ==
  LET at == {i \in 1..Len(s) : s[i] = sep}
      \* the position of the k-th separator; 0 before the first piece and
      \* Len(s) + 1 after the last one
      cut(k) == IF k = 0 THEN 0
                ELSE IF k > Cardinality(at) THEN Len(s) + 1
                ELSE CHOOSE i \in at : Cardinality({j \in at : j < i}) = k - 1
  IN [k \in 1..(Cardinality(at) + 1) |-> SubSeq(s, cut(k - 1) + 1, cut(k) - 1)]

WhiteSpace == {" ", "\n"}

\* String.prototype.trim
RECURSIVE trimStart(_)
trimStart(s) ==
  IF s # <<>> /\ Head(s) \in WhiteSpace THEN trimStart(Tail(s)) ELSE s

RECURSIVE trimEnd(_)
trimEnd(s) ==
  IF s # <<>> /\ s[Len(s)] \in WhiteSpace
  THEN trimEnd(SubSeq(s, 1, Len(s) - 1))
  ELSE s

trim(s) == trimEnd(trimStart(s))

\* Array.prototype.join with a one-character separator
RECURSIVE join(_, _)
join(ws, sep) ==
  IF ws = <<>> THEN <<>>
  ELSE IF Len(ws) = 1 THEN ws[1]
  ELSE ws[1] \o <<sep>> \o join(Tail(ws), sep)

-----------------------------------------------------------------------------
(* Settings and the sizing tables *)

\* "#0066cc", "#cc6600", "#cc0066", "#6600cc", "#00cc66"
DefaultPalette ==
  << <<"#", "0", "0", "6", "6", "c", "c">>, <<"#", "c", "c", "6", "6", "0", "0">>,
     <<"#", "c", "c", "0", "0", "6", "6">>, <<"#", "6", "6", "0", "0", "c", "c">>,
     <<"#", "0", "0", "c", "c", "6", "6">> >>

\* colorPalette is a reference: heap object 1 is DEFAULT_SETTINGS.colorPalette
DEFAULT_SETTINGS ==
  [minFontSize |-> 12, maxFontSize |-> 48, colorPalette |-> 1,
   separator |-> ",", spacing |-> "normal",
   autoFontSize |-> TRUE, autoSpacing |-> TRUE, casing |-> "as-is"]

\* spiralStep10 is spiralStep in tenths (compact has spiralStep 1.5)
SPACING_CONFIG ==
  [compact     |-> [padding |-> 3,  margin |-> 5,  startRadius |-> 1,  spiralStep10 |-> 15],
   normal      |-> [padding |-> 12, margin |-> 12, startRadius |-> 5,  spiralStep10 |-> 40],
   comfortable |-> [padding |-> 22, margin |-> 18, startRadius |-> 12, spiralStep10 |-> 70],
   loose       |-> [padding |-> 35, margin |-> 25, startRadius |-> 20, spiralStep10 |-> 100]]

\* the spacing table with its desktop thresholds excluded from their buckets
getAutoSpacingStrict(wordCount, isMobile) ==
  IF isMobile
  THEN IF wordCount <= 10 THEN SPACING_CONFIG["comfortable"]
       ELSE IF wordCount <= 20 THEN SPACING_CONFIG["normal"]
       ELSE SPACING_CONFIG["compact"]
  ELSE IF wordCount < 10 THEN SPACING_CONFIG["loose"]
       ELSE IF wordCount < 20 THEN SPACING_CONFIG["comfortable"]
       ELSE IF wordCount < 40 THEN SPACING_CONFIG["normal"]
       ELSE SPACING_CONFIG["compact"]

getAutoSpacing(wordCount, isMobile) ==
  IF isMobile
  THEN IF wordCount <= 10 THEN SPACING_CONFIG["comfortable"]
       ELSE IF wordCount <= 20 THEN SPACING_CONFIG["normal"]
       ELSE SPACING_CONFIG["compact"]
  ELSE IF wordCount <= 10 THEN SPACING_CONFIG["loose"]
       ELSE IF wordCount <= 20 THEN SPACING_CONFIG["comfortable"]
       ELSE IF wordCount <= 40 THEN SPACING_CONFIG["normal"]
       ELSE SPACING_CONFIG["compact"]

\* the font size table with its thresholds excluded from their buckets
getAutoFontSizesStrict(wordCount, isMobile) ==
  IF isMobile
  THEN IF wordCount < 10 THEN [min |-> 14, max |-> 32]
       ELSE IF wordCount < 20 THEN [min |-> 12, max |-> 26]
       ELSE IF wordCount < 40 THEN [min |-> 10, max |-> 20]
       ELSE IF wordCount < 70 THEN [min |-> 9, max |-> 16]
       ELSE [min |-> 8, max |-> 14]
  ELSE IF wordCount < 10 THEN [min |-> 20, max |-> 56]
       ELSE IF wordCount < 20 THEN [min |-> 16, max |-> 40]
       ELSE IF wordCount < 40 THEN [min |-> 14, max |-> 32]
       ELSE IF wordCount < 70 THEN [min |-> 12, max |-> 28]
       ELSE [min |-> 10, max |-> 22]

getAutoFontSizes(wordCount, isMobile) ==
  IF isMobile
  THEN IF wordCount <= 10 THEN [min |-> 14, max |-> 32]
       ELSE IF wordCount <= 20 THEN [min |-> 12, max |-> 26]
       ELSE IF wordCount <= 40 THEN [min |-> 10, max |-> 20]
       ELSE IF wordCount <= 70 THEN [min |-> 9, max |-> 16]
       ELSE [min |-> 8, max |-> 14]
  ELSE IF wordCount <= 10 THEN [min |-> 20, max |-> 56]
       ELSE IF wordCount <= 20 THEN [min |-> 16, max |-> 40]
       ELSE IF wordCount <= 40 THEN [min |-> 14, max |-> 32]
       ELSE IF wordCount <= 70 THEN [min |-> 12, max |-> 28]
       ELSE [min |-> 10, max |-> 22]

smallWords ==
  {<<"a">>, <<"a", "n">>, <<"a", "n", "d">>, <<"a", "s">>, <<"a", "t">>,
   <<"b", "u", "t">>, <<"b", "y">>, <<"f", "o", "r">>, <<"i", "n">>,
   <<"o", "f">>, <<"o", "n">>, <<"o", "r">>, <<"t", "h", "e">>,
   <<"t", "o">>, <<"w", "i", "t", "h">>}

\* word.charAt(0).toUpperCase() + word.slice(1)
capitalize(word) ==
  IF word = <<>> THEN <<>>
  ELSE charToUpperCase(word[1]) \o SubSeq(word, 2, Len(word))

\* title-case without the small-word exemption
applyCasingEveryWord(text, casing) ==
  CASE casing = "uppercase" -> toUpperCase(text)
    [] casing = "lowercase" -> toLowerCase(text)
    [] casing = "title-case" ->
         LET words == split(toLowerCase(text), " ")
         IN IF Len(words) = 1
            THEN charToUpperCase(text[1])
                   \o toLowerCase(SubSeq(text, 2, Len(text)))
            ELSE join([index \in 1..Len(words) |-> capitalize(words[index])], " ")
    [] OTHER -> text

applyCasing(text, casing) ==
  CASE casing = "uppercase" -> toUpperCase(text)
    [] casing = "lowercase" -> toLowerCase(text)
    [] casing = "title-case" ->
         LET words == split(toLowerCase(text), " ")
         IN IF Len(words) = 1
            THEN charToUpperCase(text[1])
                   \o toLowerCase(SubSeq(text, 2, Len(text)))
            ELSE join([index \in 1..Len(words) |->
                         IF \/ index = 1
                            \/ index = Len(words)
                            \/ words[index] \notin smallWords
                         THEN capitalize(words[index])
                         ELSE words[index]], " ")
    [] OTHER -> text

-----------------------------------------------------------------------------
(* Numbers *)

Max(a, b) == IF a >= b THEN a ELSE b
Min(a, b) == IF a <= b THEN a ELSE b
Abs(a) == IF a < 0 THEN -a ELSE a

\* Math.ceil(n / d) for d > 0
CeilDiv(n, d) == -((-n) \div d)

\* Math.random() returns r / RandDen for a draw r in 0..RandDen-1
RandDen == 6

\* Math.floor(Math.random() * n)
randomIndex(r, n) == (r * n) \div RandDen

-----------------------------------------------------------------------------
(* renderWordCloud: tokens, surface and sizing (main.ts 178-227) *)

\* this.settings.separator || ","
effectiveSeparator(sepSetting) == IF sepSetting = "" THEN "," ELSE sepSetting

isNonEmpty(w) == Len(w) > 0

\* const rawWords (lines 179-182)
rawWordsOf(source, st) ==
  LET separator == effectiveSeparator(st.separator)
      pieces    == split(source, separator)
      trimmed   == [i \in 1..Len(pieces) |-> trim(pieces[i])]
  IN SelectSeq(trimmed, isNonEmpty)

\* const words (lines 183-185)
tokenize(source, st) ==
  LET rawWords == rawWordsOf(source, st)
  IN [i \in 1..Len(rawWords) |-> applyCasing(rawWords[i], st.casing)]

\* offsetWidth of the container; innerWidth of the window, -1 when there is
\* no window object
getContainerWidth(offsetWidth, innerWidth) ==
  IF offsetWidth > 0 THEN offsetWidth
  ELSE IF innerWidth # -1 THEN Min(innerWidth - 40, 700)
  ELSE 700

placeholderText(separator) ==
  <<"No words provided. Add ", separator, "-separated words.">>

\* the closure of one renderWordCloud call: everything renderWords reads
callClosure(rawWords, words, st, heap, offsetWidth, innerWidth) ==
  LET containerWidth == getContainerWidth(offsetWidth, innerWidth)
      isMobile == containerWidth < 500
      autoSizes == getAutoFontSizes(Len(words), isMobile)
  IN [rawWords |-> rawWords,
      words |-> words,
      colors |-> IF Len(heap[st.colorPalette]) > 0 THEN st.colorPalette ELSE 1,
      containerWidth |-> containerWidth,
      containerHeight |-> IF isMobile THEN 400 ELSE 500,
      minFontSize |-> IF st.autoFontSize THEN autoSizes.min ELSE st.minFontSize,
      maxFontSize |-> IF st.autoFontSize THEN autoSizes.max ELSE st.maxFontSize,
      spacingConfig |-> IF st.autoSpacing
                        THEN getAutoSpacing(Len(words), isMobile)
                        ELSE SPACING_CONFIG[IF st.spacing = "" THEN "normal"
                                            ELSE st.spacing]]

-----------------------------------------------------------------------------
(* renderWords: order and label generation (main.ts 237-362) *)

\* the focus-first order built from a list that lost the last of its shuffled
\* words
shuffledWordsDropOne(words, centeredWord, perm) ==
  IF centeredWord # <<>>
  THEN LET notCentered(w) == w # centeredWord
           otherWords == SelectSeq(words, notCentered)
       IN IF otherWords = <<>> THEN <<centeredWord>>
          ELSE <<centeredWord>>
                 \o [i \in 1..(Len(otherWords) - 1) |-> otherWords[perm[i]]]
  ELSE [i \in 1..Len(words) |-> words[perm[i]]]

\* the focus-first order with the other copies of the focus word kept, after
\* the shuffled words
shuffledWordsKeepCopies(words, centeredWord, perm) ==
  IF centeredWord # <<>>
  THEN LET notCentered(w) == w # centeredWord
           isCentered(w) == w = centeredWord
           otherWords == SelectSeq(words, notCentered)
       IN <<centeredWord>> \o [i \in 1..Len(otherWords) |-> otherWords[perm[i]]]
            \o Tail(SelectSeq(words, isCentered))
  ELSE [i \in 1..Len(words) |-> words[perm[i]]]

\* centeredWord is <<>> for null (a falsy centeredWord); perm is the order
\* that sort(() => Math.random() - 0.5) leaves the array in
shuffledWords(words, centeredWord, perm) ==
  IF centeredWord # <<>>
  THEN LET notCentered(w) == w # centeredWord
           otherWords == SelectSeq(words, notCentered)
       IN <<centeredWord>> \o [i \in 1..Len(otherWords) |-> otherWords[perm[i]]]
  ELSE [i \in 1..Len(words) |-> words[perm[i]]]

\* number of elements the random sort permutes
shuffledCount(words, centeredWord) ==
  IF centeredWord # <<>>
  THEN LET notCentered(w) == w # centeredWord
       IN Len(SelectSeq(words, notCentered))
  ELSE Len(words)

fontSizeOf(isCentered, minFontSize, maxFontSize, r) ==
  IF isCentered
  THEN ((maxFontSize + minFontSize) \div 2) + 10
  ELSE randomIndex(r, maxFontSize - minFontSize + 1) + minFontSize

rotationsOf(isCentered) ==
  IF isCentered THEN <<0>> ELSE <<0, 0, 0, 0, 90, -90>>

rotationOf(isCentered, r) ==
  rotationsOf(isCentered)[randomIndex(r, Len(rotationsOf(isCentered))) + 1]

\* ceil(word.length * fontSize * 0.6) + 8
approximateWidth(word, fontSize) == CeilDiv(Len(word) * fontSize * 6, 10) + 8

\* context.measureText(word).width for the bold font of the given size: the
\* browser's answer, taken as advance hundredths of the font size per character;
\* then Math.ceil(metrics.width) + 8
measuredWidth(word, fontSize, advance) ==
  CeilDiv(Len(word) * fontSize * advance, 100) + 8

\* one element of tempElements; d holds the three Math.random() draws
wordData(word, centeredWord, cl, heap, hasCtx, advance, d) ==
  LET isCentered == (centeredWord = word)
      fontSize == fontSizeOf(isCentered, cl.minFontSize, cl.maxFontSize, d.size)
      colors == heap[cl.colors]
  IN [width |-> IF hasCtx THEN measuredWidth(word, fontSize, advance)
                ELSE approximateWidth(word, fontSize),
      height |-> fontSize + 8,
      fontSize |-> fontSize,
      color |-> colors[randomIndex(d.color, Len(colors)) + 1],
      rotation |-> rotationOf(isCentered, d.rot),
      word |-> word,
      isCentered |-> isCentered]

-----------------------------------------------------------------------------
(* Geometry of positionWords (main.ts 250-281, 370-490) *)

\* cos and sin of i * angleStep (angleStep = 0.08 rad), in thousandths, for
\* i = 0 .. AnglePeriod-1; AnglePeriod steps are two turns (157 * 0.08 = 4 pi
\* - 0.006)
COS1000 ==
  <<
      1000,   997,   987,   971,   949,   921,   887,   847,   802,   752,   697,   637,   574,   506,
       436,   362,   287,   209,   130,    51,   -29,  -109,  -188,  -266,  -342,  -416,  -487,  -556,
      -620,  -681,  -737,  -789,  -836,  -877,  -912,  -942,  -966,  -984,  -995, -1000,  -998,  -990,
      -976,  -956,  -929,  -897,  -859,  -815,  -766,  -712,  -654,  -591,  -525,  -455,  -382,  -307,
      -230,  -152,   -72,     8,    87,   167,   245,   322,   396,   469,   538,   603,   665,   723,
       776,   824,   866,   903,   935,   960,   979,   992,   999,   999,   993,   981,   962,   937,
       906,   869,   827,   780,   727,   670,   608,   543,   474,   402,   328,   251,   173,    94,
        14,   -66,  -146,  -224,  -301,  -377,  -449,  -519,  -586,  -649,  -708,  -762,  -811,  -855,
      -894,  -927,  -954,  -975,  -990,  -998, -1000,  -995,  -985,  -968,  -944,  -915,  -880,  -839,
      -793,  -742,  -686,  -625,  -561,  -493,  -422,  -348,  -272,  -194,  -115,   -36,    44,   124,
       203,   281,   356,   430,   501,   568,   632,   692,   748,   798,   844,   884,   919,   947,
       970,   986,   996
  >>
SIN1000 ==
  <<
         0,    80,   159,   238,   315,   389,   462,   531,   597,   659,   717,   771,   819,   862,
       900,   932,   958,   978,   991,   999,  1000,   994,   982,   964,   940,   909,   873,   831,
       784,   732,   675,   614,   549,   481,   409,   335,   259,   181,   101,    22,   -58,  -138,
      -217,  -294,  -369,  -443,  -513,  -580,  -643,  -702,  -757,  -807,  -851,  -890,  -924,  -952,
      -973,  -988,  -997, -1000,  -996,  -986,  -970,  -947,  -918,  -883,  -843,  -798,  -747,  -691,
      -631,  -567,  -500,  -429,  -355,  -279,  -202,  -123,   -43,    37,   117,   196,   273,   349,
       423,   494,   562,   626,   687,   743,   794,   840,   880,   916,   945,   968,   985,   996,
      1000,   998,   989,   975,   954,   926,   893,   855,   810,   761,   707,   648,   585,   518,
       448,   375,   300,   223,   144,    65,   -15,   -95,  -174,  -252,  -329,  -403,  -475,  -544,
      -609,  -671,  -728,  -780,  -828,  -870,  -907,  -937,  -962,  -981,  -993,  -999,  -999,  -992,
      -979,  -960,  -934,  -903,  -866,  -823,  -775,  -722,  -664,  -602,  -537,  -467,  -395,  -321,
      -244,  -166,   -86
  >>
AnglePeriod == 157

\* Math.random() * Math.PI * 2, in angleStep units, rounded down
\* (2 pi / 0.08 = 78.54)
startAngle(r) == (r * 7854) \div (RandDen * 100)

\* the startRadius of the compact profile (1 pixel), in 1/100000 pixel
startRadiusCompact == SPACING_CONFIG["compact"].startRadius * 100000

\* spiralRadius = 120, in 1/100000 pixel
startRadiusR == 12000000

maxAttempts == 20000

\* spiralStep * (angleStep / (2 * Math.PI)), in 1/100000 pixel
\* (0.08 / (2 pi) = 0.0127324)
radiusIncrementR(spacingConfig) == (spacingConfig.spiralStep10 * 127324) \div 1000

\* Math.max(containerWidth, containerHeight) * 2, in 1/100000 pixel
maxRadiusR(cl) == Max(cl.containerWidth, cl.containerHeight) * 2 * 100000

\* containerWidth / 2 and containerHeight / 2, in hundredths of a pixel
centerXC(cl) == cl.containerWidth * 50
centerYC(cl) == cl.containerHeight * 50

\* centerX + spiralRadius * Math.cos(angle), centerY + spiralRadius * Math.sin(angle)
testCenterXC(cl, spiralRadius, angle) ==
  centerXC(cl) + (((spiralRadius \div 1000) * COS1000[(angle % AnglePeriod) + 1]) \div 1000)
testCenterYC(cl, spiralRadius, angle) ==
  centerYC(cl) + (((spiralRadius \div 1000) * SIN1000[(angle % AnglePeriod) + 1]) \div 1000)

\* footprint of a rectangle: width and height swapped for rotation +90 / -90
footprintW(rect) == IF Abs(rect.rotation) = 90 THEN rect.height ELSE rect.width
footprintH(rect) == IF Abs(rect.rotation) = 90 THEN rect.width ELSE rect.height

\* checkOverlap with the padding left out of the comparison
checkOverlapUnpadded(rect1, rect2, padding) ==
  LET w1 == footprintW(rect1)
      h1 == footprintH(rect1)
      w2 == footprintW(rect2)
      h2 == footprintH(rect2)
  IN ~(\/ rect1.centerX + (w1 \div 2) < rect2.centerX - (w2 \div 2)
       \/ rect1.centerX - (w1 \div 2) > rect2.centerX + (w2 \div 2)
       \/ rect1.centerY + (h1 \div 2) < rect2.centerY - (h2 \div 2)
       \/ rect1.centerY - (h1 \div 2) > rect2.centerY + (h2 \div 2))

\* PlacedRect fields are in hundredths of a pixel; padding is in pixels
checkOverlap(rect1, rect2, padding) ==
  LET w1 == footprintW(rect1)
      h1 == footprintH(rect1)
      w2 == footprintW(rect2)
      h2 == footprintH(rect2)
      left1   == rect1.centerX - (w1 \div 2) - padding * 100
      right1  == rect1.centerX + (w1 \div 2) + padding * 100
      top1    == rect1.centerY - (h1 \div 2) - padding * 100
      bottom1 == rect1.centerY + (h1 \div 2) + padding * 100
      left2   == rect2.centerX - (w2 \div 2) - padding * 100
      right2  == rect2.centerX + (w2 \div 2) + padding * 100
      top2    == rect2.centerY - (h2 \div 2) - padding * 100
      bottom2 == rect2.centerY + (h2 \div 2) + padding * 100
  IN ~(right1 < left2 \/ left1 > right2 \/ bottom1 < top2 \/ top1 > bottom2)

\* the PlacedRect tested at (spiralRadius, angle)
testRect(temp, cl, spiralRadius, angle) ==
  [centerX |-> testCenterXC(cl, spiralRadius, angle),
   centerY |-> testCenterYC(cl, spiralRadius, angle),
   width |-> temp.width * 100,
   height |-> temp.height * 100,
   rotation |-> temp.rotation]

\* the bounds test without the swap of width and height for a turned label
withinBoundsUnrotated(rect, cl) ==
  LET margin == cl.spacingConfig.margin * 100
  IN /\ rect.centerX - (rect.width \div 2) >= margin
     /\ rect.centerX + (rect.width \div 2) <= cl.containerWidth * 100 - margin
     /\ rect.centerY - (rect.height \div 2) >= margin
     /\ rect.centerY + (rect.height \div 2) <= cl.containerHeight * 100 - margin

\* the bounds test of lines 432-449
withinBounds(rect, cl) ==
  LET neededWidth == footprintW(rect)
      neededHeight == footprintH(rect)
      left   == rect.centerX - (neededWidth \div 2)
      right  == rect.centerX + (neededWidth \div 2)
      top    == rect.centerY - (neededHeight \div 2)
      bottom == rect.centerY + (neededHeight \div 2)
      margin == cl.spacingConfig.margin * 100
  IN /\ left >= margin
     /\ right <= cl.containerWidth * 100 - margin
     /\ top >= margin
     /\ bottom <= cl.containerHeight * 100 - margin

hasOverlap(rect, placedElements, cl) ==
  \E i \in 1..Len(placedElements) :
     checkOverlap(rect, placedElements[i], cl.spacingConfig.padding)

\* one iteration of the while loop places the label
accepts(temp, cl, placedElements, spiralRadius, angle) ==
  LET rect == testRect(temp, cl, spiralRadius, angle)
  IN withinBounds(rect, cl) /\ ~hasOverlap(rect, placedElements, cl)

\* the guard without the cap on attempts
spiralContinueUncapped(placed, spiralRadius, attempts, cl) ==
  ~placed /\ spiralRadius < maxRadiusR(cl)

\* the guard of the while loop
spiralContinue(placed, spiralRadius, attempts, cl) ==
  ~placed /\ spiralRadius < maxRadiusR(cl) /\ attempts < maxAttempts

-----------------------------------------------------------------------------
(* positionWords (main.ts 370-554) *)

\* tempElements.sort((a, b) => b.width * b.height - a.width * a.height):
\* stable, descending by area
RECURSIVE insertByArea(_, _)
insertByArea(sorted, e) ==
  IF sorted = <<>> THEN <<e>>
  ELSE IF Head(sorted).width * Head(sorted).height >= e.width * e.height
       THEN <<Head(sorted)>> \o insertByArea(Tail(sorted), e)
       ELSE <<e>> \o sorted

RECURSIVE sortByArea(_)
sortByArea(temps) ==
  IF temps = <<>> THEN <<>>
  ELSE insertByArea(sortByArea(SubSeq(temps, 1, Len(temps) - 1)), temps[Len(temps)])

\* the labels sorted by area in every pass
processingOrderSorted(temps, centeredWord) == sortByArea(temps)

\* the order in which positionWords processes the labels
processingOrder(temps, centeredWord) ==
  IF centeredWord = <<>> THEN sortByArea(temps) ELSE temps

\* the span of a placed label: --wc-left and --wc-top in hundredths of a pixel
spanOf(temp, pass, rectCenterX, rectCenterY) ==
  [tag |-> "span", text |-> temp.word, pass |-> pass,
   left |-> rectCenterX - temp.width * 50,
   top |-> rectCenterY - temp.height * 50,
   rotation |-> temp.rotation, isCentered |-> temp.isCentered]

\* the centered branch recording the label's left/top corner as its centre
placeCenteredAtCorner(temp, cl) ==
  [placed |-> TRUE, attempts |-> 0,
   rect |-> [centerX |-> centerXC(cl) - temp.width * 50,
             centerY |-> centerYC(cl) - temp.height * 50,
             width |-> temp.width * 150, height |-> temp.height * 150,
             rotation |-> temp.rotation]]

\* the centered branch (lines 394-413)
placeCentered(temp, cl) ==
  [placed |-> TRUE, attempts |-> 0,
   rect |-> [centerX |-> centerXC(cl), centerY |-> centerYC(cl),
             width |-> temp.width * 150, height |-> temp.height * 150,
             rotation |-> temp.rotation]]

\* spiralRadius and angle at the start of iteration k (k = attempts)
spiralRadiusAt(cl, k) == startRadiusR + k * radiusIncrementR(cl.spacingConfig)
angleAt(angle0, k) == angle0 + k

\* number of iterations of the while loop when no iteration places the label
exhaustedAttempts(cl) ==
  IF maxRadiusR(cl) <= startRadiusR THEN 0
  ELSE Min(maxAttempts,
           CeilDiv(maxRadiusR(cl) - startRadiusR, radiusIncrementR(cl.spacingConfig)))

\* the while loop of lines 424-485, run to its exit: the first iteration whose
\* candidate is accepted, if the guard lets the loop get there
spiralSearch(temp, cl, placedElements, angle0) ==
  LET tested(k) == spiralContinue(FALSE, spiralRadiusAt(cl, k), k, cl)
      hit(k) == /\ tested(k)
                /\ accepts(temp, cl, placedElements, spiralRadiusAt(cl, k), angleAt(angle0, k))
  IN IF \E k \in 0..(exhaustedAttempts(cl) - 1) : hit(k)
     THEN LET k == CHOOSE k \in 0..(exhaustedAttempts(cl) - 1) :
                      hit(k) /\ \A j \in 0..(k - 1) : ~hit(j)
          IN [placed |-> TRUE, attempts |-> k + 1,
              rect |-> testRect(temp, cl, spiralRadiusAt(cl, k), angleAt(angle0, k))]
     ELSE [placed |-> FALSE, attempts |-> exhaustedAttempts(cl), rect |-> <<>>]

\* the body of tempElements.forEach for one label
positionOne(temp, cl, placedElements, angle0) ==
  IF temp.isCentered THEN placeCentered(temp, cl)
  ELSE spiralSearch(temp, cl, placedElements, angle0)

\* tempElements.forEach from label i on; angles[i] is the start angle drawn
\* for label i; acc carries placedElements, the spans left in the container
\* and, per label, the loop's locals at its exit
RECURSIVE positionFrom(_, _, _, _, _, _)
positionFrom(i, temps, cl, pass, angles, acc) ==
  IF i > Len(temps) THEN acc
  ELSE LET temp == temps[i]
           r == positionOne(temp, cl, acc.placedElements, angles[i])
       IN positionFrom(i + 1, temps, cl, pass, angles,
            [placedElements |-> IF r.placed THEN Append(acc.placedElements, r.rect)
                                ELSE acc.placedElements,
             spans |-> IF r.placed
                       THEN Append(acc.spans,
                                   spanOf(temp, pass, r.rect.centerX, r.rect.centerY))
                       ELSE acc.spans,
             locals |-> Append(acc.locals,
                               [placed |-> r.placed, attempts |-> r.attempts,
                                angle0 |-> angles[i]])])

\* forEach that gives up on the pass at the first label it cannot place
RECURSIVE positionFromAbort(_, _, _, _, _, _)
positionFromAbort(i, temps, cl, pass, angles, acc) ==
  IF i > Len(temps) THEN acc
  ELSE LET temp == temps[i]
           r == positionOne(temp, cl, acc.placedElements, angles[i])
           next == [placedElements |-> IF r.placed THEN Append(acc.placedElements, r.rect)
                                       ELSE acc.placedElements,
                    spans |-> IF r.placed
                              THEN Append(acc.spans,
                                          spanOf(temp, pass, r.rect.centerX, r.rect.centerY))
                              ELSE acc.spans,
                    locals |-> Append(acc.locals,
                                      [placed |-> r.placed, attempts |-> r.attempts,
                                       angle0 |-> angles[i]])]
       IN IF r.placed THEN positionFromAbort(i + 1, temps, cl, pass, angles, next)
          ELSE next

positionWordsAbort(p, pass, cl, angles) ==
  positionFromAbort(1, processingOrder(p.tempElements, p.centeredWord), cl, pass, angles,
                    [placedElements |-> <<>>, spans |-> <<>>, locals |-> <<>>])

positionWords(p, pass, cl, angles) ==
  positionFrom(1, processingOrder(p.tempElements, p.centeredWord), cl, pass, angles,
               [placedElements |-> <<>>, spans |-> <<>>, locals |-> <<>>])

-----------------------------------------------------------------------------
(* Timers: setTimeout and requestAnimationFrame callbacks *)

initialDelay == 100     \* setTimeout(..., 100) of renderWordCloud
positionDelay == 50     \* setTimeout(..., 50) of the deferred hand-off

RemoveAt(seq, i) == SubSeq(seq, 1, i - 1) \o SubSeq(seq, i + 1, Len(seq))

\* a callback may run when its delay has elapsed and every callback of its
\* kind that was registered before it has run
fireable(i) ==
  /\ timers[i].remaining <= 0
  /\ \A j \in 1..(i - 1) : timers[j].kind # timers[i].kind

\* delay until the next animation frame: not before an earlier request's frame
frameDelayOk(ts, d) ==
  \A j \in 1..Len(ts) : ts[j].kind = "frame" => ts[j].remaining <= d

-----------------------------------------------------------------------------
(* State after onload: loadSettings (main.ts 563-565) *)

idleSp == [pc |-> "idle"]

\* Object.assign({}, DEFAULT_SETTINGS, data) for the stored fields other than
\* the palette
loadSettings(data) ==
  [k \in DOMAIN DEFAULT_SETTINGS |->
     IF k \in DOMAIN data /\ k # "colorPalette" THEN data[k]
     ELSE IF k \in DOMAIN data THEN 2
     ELSE DEFAULT_SETTINGS[k]]

\* the colour arrays after loadSettings: the default array and, when the
\* stored data has a palette, that array
loadPalettes(data) ==
  IF "colorPalette" \in DOMAIN data
  THEN <<DefaultPalette, data.colorPalette>>
  ELSE <<DefaultPalette>>

InitWith(storedData) ==
  /\ \E data \in storedData :
       /\ settings = loadSettings(data)
       /\ palettes = loadPalettes(data)
  /\ container = <<>>
  /\ calls = <<>>
  /\ passes = <<>>
  /\ timers = <<>>
  /\ errors = {}
  /\ sp = idleSp
  /\ colorContainer = <<>>
  /\ saves = <<>>

-----------------------------------------------------------------------------
(* Handlers *)

paragraph(text) ==
  [tag |-> "p", text |-> text, pass |-> 0, left |-> 0, top |-> 0,
   rotation |-> 0, isCentered |-> FALSE]

\* renderWordCloud(source, container) (main.ts 174-232, 557-560)
RenderWordCloud(source, innerWidth) ==
  LET words == tokenize(source, settings)
      cl == callClosure(rawWordsOf(source, settings), words, settings, palettes,
                        containerOffsetWidth, innerWidth)
  IN /\ calls' = Append(calls, cl)
     /\ IF Len(words) = 0
        THEN /\ container' = <<paragraph(placeholderText(effectiveSeparator(settings.separator)))>>
             /\ timers' = timers
        ELSE /\ container' = <<>>
             /\ timers' = Append(timers, [kind |-> "initial", id |-> Len(calls) + 1,
                                          remaining |-> initialDelay])
     /\ UNCHANGED <<settings, palettes, passes, errors, sp, containerOffsetWidth, colorContainer, saves>>

\* renderWords reading the size range from the settings of the moment
\* instead of the values its call captured
RenderWordsCurrentSettings(c, centeredWord, baseTimers, hasCtx, advance, perm, draws, frameDelay) ==
  LET cl == [calls[c] EXCEPT
               !.minFontSize = IF settings.autoFontSize THEN @ ELSE settings.minFontSize,
               !.maxFontSize = IF settings.autoFontSize THEN @ ELSE settings.maxFontSize]
      order == shuffledWords(cl.words, centeredWord, perm)
      temps == [i \in 1..Len(order) |->
                  wordData(order[i], centeredWord, cl, palettes, hasCtx, advance, draws[i])]
  IN /\ container' = <<>>
     /\ passes' = Append(passes,
                    [call |-> c, centeredWord |-> centeredWord,
                     tempElements |-> temps, positionWords |-> hasCtx,
                     state |-> "pending", placedElements |-> <<>>, locals |-> <<>>,
                     callsBefore |-> Len(calls)])
     /\ timers' = Append(baseTimers, [kind |-> "frame", id |-> Len(passes) + 1,
                                      remaining |-> frameDelay])

\* renderWords(centeredWord) of call c (main.ts 234-368): clears the container,
\* generates tempElements and requests the animation frame; positionWords is
\* initialised only when the canvas context was obtained (the const of line
\* 370 comes after the return of line 326).  callsBefore is history: the
\* number of renderWordCloud calls made when the pass starts
RenderWords(c, centeredWord, baseTimers, hasCtx, advance, perm, draws, frameDelay) ==
  LET cl == calls[c]
      order == shuffledWords(cl.words, centeredWord, perm)
      temps == [i \in 1..Len(order) |->
                  wordData(order[i], centeredWord, cl, palettes, hasCtx, advance, draws[i])]
  IN /\ container' = <<>>
     /\ passes' = Append(passes,
                    [call |-> c, centeredWord |-> centeredWord,
                     tempElements |-> temps, positionWords |-> hasCtx,
                     state |-> "pending", placedElements |-> <<>>, locals |-> <<>>,
                     callsBefore |-> Len(calls)])
     /\ timers' = Append(baseTimers, [kind |-> "frame", id |-> Len(passes) + 1,
                                      remaining |-> frameDelay])

\* the inputs of one renderWords call, drawn from the given sets
RenderWordsFrom(c, centeredWord, baseTimers, ctxs, advances, labelDraws, frameDelays) ==
  LET n == shuffledCount(calls[c].words, centeredWord)
      m == Len(shuffledWords(calls[c].words, centeredWord, [i \in 1..n |-> i]))
  IN \E hasCtx \in ctxs, advance \in advances, perm \in Permutations(1..n),
        draws \in [1..m -> labelDraws], frameDelay \in frameDelays :
       /\ frameDelayOk(baseTimers, frameDelay)
       /\ centeredWord # <<>> => draws[1].size = 0 /\ draws[1].rot = 0
       /\ RenderWords(c, centeredWord, baseTimers, hasCtx, advance, perm, draws, frameDelay)

\* the callback of setTimeout(..., 100) in renderWordCloud (main.ts 557-560)
InitialTimeout(i, wordDraws, ctxs, advances, labelDraws, frameDelays) ==
  /\ timers[i].kind = "initial"
  /\ fireable(i)
  /\ \E r \in wordDraws :
       LET words == calls[timers[i].id].words
           randomWord == words[randomIndex(r, Len(words)) + 1]
       IN RenderWordsFrom(timers[i].id, randomWord, RemoveAt(timers, i),
                          ctxs, advances, labelDraws, frameDelays)
  /\ UNCHANGED <<settings, palettes, calls, errors, sp, containerOffsetWidth, colorContainer, saves>>

\* the handler calling renderWords() without a word
SelectUnfocused(e, ctxs, advances, labelDraws, frameDelays) ==
  /\ container[e].tag = "span"
  /\ RenderWordsFrom(passes[container[e].pass].call, <<>>, timers,
                     ctxs, advances, labelDraws, frameDelays)
  /\ UNCHANGED <<settings, palettes, calls, errors, sp, containerOffsetWidth, colorContainer, saves>>

\* the handler calling renderWords with the word focused so far
SelectKeepFocus(e, ctxs, advances, labelDraws, frameDelays) ==
  /\ container[e].tag = "span"
  /\ RenderWordsFrom(passes[container[e].pass].call,
                     passes[container[e].pass].centeredWord, timers,
                     ctxs, advances, labelDraws, frameDelays)
  /\ UNCHANGED <<settings, palettes, calls, errors, sp, containerOffsetWidth, colorContainer, saves>>

\* click or touchend on the span at position e of the container (main.ts 496-506)
Select(e, ctxs, advances, labelDraws, frameDelays) ==
  /\ container[e].tag = "span"
  /\ RenderWordsFrom(passes[container[e].pass].call, container[e].text, timers,
                     ctxs, advances, labelDraws, frameDelays)
  /\ UNCHANGED <<settings, palettes, calls, errors, sp, containerOffsetWidth, colorContainer, saves>>

\* the requestAnimationFrame callback (main.ts 321-325, 364-368)
AnimationFrame(i) ==
  /\ timers[i].kind = "frame"
  /\ fireable(i)
  /\ timers' = Append(RemoveAt(timers, i),
                      [kind |-> "position", id |-> timers[i].id, remaining |-> positionDelay])
  /\ UNCHANGED <<settings, palettes, container, calls, passes, errors, sp, containerOffsetWidth, colorContainer, saves>>

\* the setTimeout(..., 50) callback: positionWords(), or a ReferenceError when
\* positionWords was never initialised
PositionTimeout(i, angleDraws) ==
  /\ timers[i].kind = "position"
  /\ fireable(i)
  /\ timers' = RemoveAt(timers, i)
  /\ LET id == timers[i].id
         p == passes[id]
     IN IF ~p.positionWords
        THEN /\ errors' = errors \cup {id}
             /\ passes' = [passes EXCEPT ![id].state = "threw"]
             /\ container' = container
        ELSE \E angles \in [1..Len(p.tempElements) -> angleDraws] :
               /\ \A k \in 1..Len(p.tempElements) :
                    processingOrder(p.tempElements, p.centeredWord)[k].isCentered
                      => angles[k] = 0
               /\ LET r == positionWords(p, id, calls[p.call],
                                         [k \in DOMAIN angles |-> startAngle(angles[k])])
                  IN /\ passes' = [passes EXCEPT ![id].state = "placed",
                                                 ![id].placedElements = r.placedElements,
                                                 ![id].locals = r.locals]
                     /\ container' = container \o r.spans
                     /\ errors' = errors
  /\ UNCHANGED <<settings, palettes, calls, sp, containerOffsetWidth, colorContainer, saves>>

\* the container is attached and laid out: container.offsetWidth, read by
\* getContainerWidth (main.ts 200), becomes its on-screen width
Mount(width) ==
  /\ containerOffsetWidth = 0
  /\ containerOffsetWidth' = width
  /\ UNCHANGED <<settings, palettes, container, calls, passes, timers, errors, sp,
                 colorContainer, saves>>

\* time passes while no callback is due
Tick ==
  /\ timers # <<>>
  /\ \A i \in 1..Len(timers) : timers[i].remaining > 0
  /\ timers' = [i \in 1..Len(timers) |->
                  [timers[i] EXCEPT !.remaining = @ - positionDelay]]
  /\ UNCHANGED <<settings, palettes, container, calls, passes, errors, sp, containerOffsetWidth, colorContainer, saves>>

-----------------------------------------------------------------------------
(* WordCloudSettingTab.display: font size and colour palette (main.ts 714-919) *)

DigitChars == <<"0", "1", "2", "3", "4", "5", "6", "7", "8", "9">>
HexChars ==
  <<"0", "1", "2", "3", "4", "5", "6", "7", "8", "9", "a", "b", "c", "d", "e", "f">>

isDigit(c) == \E d \in 1..10 : DigitChars[d] = c
digitValue(c) == (CHOOSE d \in 1..10 : DigitChars[d] = c) - 1

\* the value of the longest prefix of decimal digits of s, after acc
RECURSIVE digitsValue(_, _)
digitsValue(s, acc) ==
  IF s = <<>> \/ ~isDigit(s[1]) THEN acc
  ELSE digitsValue(Tail(s), 10 * acc + digitValue(s[1]))

\* parseInt(value): leading white space skipped, an optional sign, then the
\* decimal digits up to the first other character; NaN when there is no digit
parseInt(value) ==
  LET t == trimStart(value)
      signed == t # <<>> /\ t[1] \in {"+", "-"}
      body == IF signed THEN Tail(t) ELSE t
  IN IF body = <<>> \/ ~isDigit(body[1])
     THEN [isNaN |-> TRUE, num |-> 0]
     ELSE [isNaN |-> FALSE,
           num |-> IF signed /\ t[1] = "-" THEN -digitsValue(body, 0)
                   ELSE digitsValue(body, 0)]

\* Number.prototype.toString(16) of n >= 0
RECURSIVE toString16(_)
toString16(n) ==
  IF n < 16 THEN <<HexChars[n + 1]>>
  ELSE Append(toString16(n \div 16), HexChars[(n % 16) + 1])

\* String.prototype.padStart(targetLength, "0")
RECURSIVE padStart(_, _)
padStart(s, targetLength) ==
  IF Len(s) >= targetLength THEN s ELSE padStart(<<"0">> \o s, targetLength)

\* "#" + Math.floor(Math.random() * 16777215).toString(16).padStart(6, "0")
randomColor(r) == <<"#">> \o padStart(toString16((r * 16777215) \div RandDen), 6)

\* Array.prototype.splice(index, 1), index counted from 1: nothing is removed
\* when the index is past the end
splice(array, index) ==
  IF index > Len(array) THEN array
  ELSE SubSeq(array, 1, index - 1) \o SubSeq(array, index + 1, Len(array))

\* one word-cloud-palette-item made by the forEach of renderColorPalette
\* (lines 846-886): the value of its colour input, the text of its label, the
\* index its handlers captured (from 1) and whether its remove button is
\* disabled
paletteItem(color, index, length) ==
  [tag |-> "item", value |-> color, label |-> toUpperCase(color), index |-> index,
   disabled |-> (length = 1)]

\* the "Add color" button (lines 888-891)
addColorBtn ==
  [tag |-> "add", value |-> <<>>, label |-> <<>>, index |-> 0, disabled |-> FALSE]

\* the children of colorContainer after renderColorPalette() on the array
\* (lines 843-903)
renderColorPalette(array) ==
  [i \in 1..Len(array) |-> paletteItem(array[i], i, Len(array))] \o <<addColorBtn>>

\* a saveSettings() promise: what runs when it settles
pendingSave(then) == [then |-> then]

\* onChange of the "Auto font size" toggle (lines 714-727)
SetAutoFontSize(value) ==
  /\ settings' = [settings EXCEPT !.autoFontSize = value]
  /\ UNCHANGED <<palettes, container, calls, passes, timers, errors, sp,
                 containerOffsetWidth, colorContainer, saves>>

\* onChange of the "Minimum font size" text, shown while auto sizing is off
\* (lines 729-743)
SetMinFontSize(value) ==
  /\ ~settings.autoFontSize
  /\ LET num == parseInt(value)
     IN settings' = IF ~num.isNaN /\ num.num > 0
                    THEN [settings EXCEPT !.minFontSize = num.num]
                    ELSE settings
  /\ UNCHANGED <<palettes, container, calls, passes, timers, errors, sp,
                 containerOffsetWidth, colorContainer, saves>>

\* onChange of the "Maximum font size" text (lines 745-759)
SetMaxFontSize(value) ==
  /\ ~settings.autoFontSize
  /\ LET num == parseInt(value)
     IN settings' = IF ~num.isNaN /\ num.num > 0
                    THEN [settings EXCEPT !.maxFontSize = num.num]
                    ELSE settings
  /\ UNCHANGED <<palettes, container, calls, passes, timers, errors, sp,
                 containerOffsetWidth, colorContainer, saves>>

\* onChange of the "Word separator" dropdown (lines 673-688)
SetSeparator(value) ==
  /\ settings' = [settings EXCEPT !.separator = value]
  /\ UNCHANGED <<palettes, container, calls, passes, timers, errors, sp,
                 containerOffsetWidth, colorContainer, saves>>

\* onChange of the "Text casing" dropdown (lines 690-707)
SetCasing(value) ==
  /\ settings' = [settings EXCEPT !.casing = value]
  /\ UNCHANGED <<palettes, container, calls, passes, timers, errors, sp,
                 containerOffsetWidth, colorContainer, saves>>

\* onChange of the "Auto spacing" toggle (lines 780-791)
SetAutoSpacing(value) ==
  /\ settings' = [settings EXCEPT !.autoSpacing = value]
  /\ UNCHANGED <<palettes, container, calls, passes, timers, errors, sp,
                 containerOffsetWidth, colorContainer, saves>>

\* onChange of the "Spacing preset" dropdown, shown while auto spacing is off
\* (lines 793-815)
SetSpacing(value) ==
  /\ ~settings.autoSpacing
  /\ settings' = [settings EXCEPT !.spacing = value]
  /\ UNCHANGED <<palettes, container, calls, passes, timers, errors, sp,
                 containerOffsetWidth, colorContainer, saves>>

\* "change" on the colour input of the item that captured index (lines
\* 855-859): the input shows the chosen value, the label is not rewritten
ChangeColor(index, value) ==
  /\ index \in 1..Len(palettes[settings.colorPalette])
  /\ palettes' = [palettes EXCEPT ![settings.colorPalette][index] = value]
  /\ colorContainer' = [e \in 1..Len(colorContainer) |->
                          IF colorContainer[e].tag = "item" /\ colorContainer[e].index = index
                          THEN [colorContainer[e] EXCEPT !.value = value]
                          ELSE colorContainer[e]]
  /\ saves' = Append(saves, pendingSave("nothing"))
  /\ UNCHANGED <<settings, container, calls, passes, timers, errors, sp,
                 containerOffsetWidth>>

\* the remove handler without its test of the palette's length
RemoveColorUnguarded(index) ==
  /\ index \in 1..Len(palettes[settings.colorPalette])
  /\ palettes' = [palettes EXCEPT ![settings.colorPalette] = splice(@, index)]
  /\ saves' = Append(saves, pendingSave("nothing"))
  /\ colorContainer' = renderColorPalette(palettes'[settings.colorPalette])
  /\ UNCHANGED <<settings, container, calls, passes, timers, errors, sp,
                 containerOffsetWidth>>

\* click on the remove button of the item that captured index (lines
\* 872-880): splice, a save that nothing awaits, and the swatches rendered
\* again before the handler returns; a Notice when one colour is left
RemoveColor(index) ==
  /\ index >= 1
  /\ IF Len(palettes[settings.colorPalette]) > 1
     THEN /\ palettes' = [palettes EXCEPT ![settings.colorPalette] = splice(@, index)]
          /\ saves' = Append(saves, pendingSave("nothing"))
          /\ colorContainer' = renderColorPalette(palettes'[settings.colorPalette])
     ELSE UNCHANGED <<palettes, saves, colorContainer>>
  /\ UNCHANGED <<settings, container, calls, passes, timers, errors, sp,
                 containerOffsetWidth>>

\* the same click in src/unnamed/part_000 (lines 876-884): the handler awaits
\* the save, and renderColorPalette() runs when the save has settled
RemoveColorAwaited(index) ==
  /\ index >= 1
  /\ IF Len(palettes[settings.colorPalette]) > 1
     THEN /\ palettes' = [palettes EXCEPT ![settings.colorPalette] = splice(@, index)]
          /\ saves' = Append(saves, pendingSave("render"))
     ELSE UNCHANGED <<palettes, saves>>
  /\ UNCHANGED <<settings, container, calls, passes, timers, errors, sp,
                 containerOffsetWidth, colorContainer>>

\* click on "Add color" (lines 893-902)
AddColor(r) ==
  /\ palettes' = [palettes EXCEPT ![settings.colorPalette] = Append(@, randomColor(r))]
  /\ saves' = Append(saves, pendingSave("nothing"))
  /\ colorContainer' = renderColorPalette(palettes'[settings.colorPalette])
  /\ UNCHANGED <<settings, container, calls, passes, timers, errors, sp,
                 containerOffsetWidth>>

\* click on "Reset to defaults" (lines 907-918): a new array holding the
\* present elements of DEFAULT_SETTINGS.colorPalette; the swatches are
\* rendered again when the awaited save has settled
ResetColorPalette ==
  /\ palettes' = Append(palettes, palettes[DEFAULT_SETTINGS.colorPalette])
  /\ settings' = [settings EXCEPT !.colorPalette = Len(palettes) + 1]
  /\ saves' = Append(saves, pendingSave("render"))
  /\ UNCHANGED <<container, calls, passes, timers, errors, sp, containerOffsetWidth,
                 colorContainer>>

\* the promise of saveSettings() number i settles (lines 567-569) and the
\* handler that awaited it goes on
SaveSettled(i) ==
  /\ i \in 1..Len(saves)
  /\ saves' = RemoveAt(saves, i)
  /\ colorContainer' = IF saves[i].then = "render"
                       THEN renderColorPalette(palettes[settings.colorPalette])
                       ELSE colorContainer
  /\ UNCHANGED <<settings, palettes, container, calls, passes, timers, errors, sp,
                 containerOffsetWidth>>

\* WordCloudSettingTab.display() up to its renderColorPalette() (lines 668-905)
Display ==
  /\ colorContainer' = renderColorPalette(palettes[settings.colorPalette])
  /\ UNCHANGED <<settings, palettes, container, calls, passes, timers, errors, sp,
                 containerOffsetWidth, saves>>

-----------------------------------------------------------------------------
(* Inputs *)

\* no stored data (first run); stored manual spacing; stored separator
NoData == [k \in {} |-> TRUE]
ManualCompact == [autoSpacing |-> FALSE, spacing |-> "compact"]
SemicolonData == [separator |-> ";"]
\* a stored palette of two colours, "#112233" and "#445566"; a stored empty
\* palette; stored manual font sizes
StoredPalette ==
  [colorPalette |-> << <<"#", "1", "1", "2", "2", "3", "3">>,
                       <<"#", "4", "4", "5", "5", "6", "6">> >>]
StoredEmptyPalette == [colorPalette |-> <<>>]
ManualSizes == [autoFontSize |-> FALSE, minFontSize |-> 14, maxFontSize |-> 36]
StoredTitleCase == [casing |-> "title-case"]

\* "knowledge-management, pkm, notes" and "apple, pkm"
SourceTags ==
  <<"k", "n", "o", "w", "l", "e", "d", "g", "e", "-", "m", "a", "n", "a", "g", "e", "m", "e", "n", "t", ",", " ", "p", "k", "m", ",", " ", "n", "o", "t", "e", "s">>
SourceShort == <<"a", "p", "p", "l", "e", ",", " ", "p", "k", "m">>
\* "w" for n = 1, "w,w" for n = 2, ...: a source of n tokens
sourceOfCount(n) == [i \in 1..(2 * n - 1) |-> IF i % 2 = 1 THEN "w" ELSE ","]

\* the words of the phrases of SpecCasing: "the", "art", "of", "design",
\* "Design", "Thinking" and sharp s followed by "a"
Vocabulary ==
  {<<"t", "h", "e">>, <<"a", "r", "t">>, <<"o", "f">>,
   <<"d", "e", "s", "i", "g", "n">>, <<"D", "e", "s", "i", "g", "n">>,
   <<"T", "h", "i", "n", "k", "i", "n", "g">>, <<SharpS, "a">>}

\* the phrases of 1 .. MaxPhraseWords words, as sequences of words
Phrases == UNION {[1..n -> Vocabulary] : n \in 1..MaxPhraseWords}

\* "pkm, notes, pkm"
SourceRepeated ==
  <<"p", "k", "m", ",", " ", "n", "o", "t", "e", "s", ",", " ", "p", "k", "m">>
\* "", " , " and "pkm; notes"
SourceEmpty == <<>>
SourceBlank == <<" ", ",", " ">>
SourceSemicolon == <<"p", "k", "m", ";", " ", "n", "o", "t", "e", "s">>

\* the three Math.random() draws of one label (font size, colour, rotation)
DrawSmall == [size |-> 0, color |-> 0, rot |-> 0]
DrawLargeTurned == [size |-> 5, color |-> 3, rot |-> 5]

\* on-screen width of a narrow pane, in pixels
NarrowWidth == 360

\* character advance of the measured bold font, in hundredths of the font size
Advances == {55}

\* delay until the next animation frame, in milliseconds
FrameDelays == {0, positionDelay}

-----------------------------------------------------------------------------
(* SpecLayout: one renderWordCloud call and its initial layout pass, over   *)
(* label sizes, rotations, start angles, surfaces and spacing profiles      *)

InitLayout ==
  /\ InitWith({NoData, ManualCompact})
  /\ containerOffsetWidth \in {0, NarrowWidth}

LayoutRenderWordCloud ==
  /\ calls = <<>>
  /\ \E source \in {SourceTags, SourceShort, SourceRepeated},
        innerWidth \in {-1, 1280} :
       RenderWordCloud(source, innerWidth)

LayoutMount == Mount(NarrowWidth)

LayoutInitialTimeout ==
  \E i \in 1..Len(timers) :
    InitialTimeout(i, {0, 2, 4}, BOOLEAN, Advances,
                   {DrawSmall, DrawLargeTurned}, {0})

LayoutAnimationFrame == \E i \in 1..Len(timers) : AnimationFrame(i)

LayoutPositionTimeout == \E i \in 1..Len(timers) : PositionTimeout(i, {0, 3})

NextLayout ==
  \/ LayoutRenderWordCloud
  \/ LayoutMount
  \/ LayoutInitialTimeout
  \/ LayoutAnimationFrame
  \/ LayoutPositionTimeout
  \/ Tick

SpecLayout == InitLayout /\ [][NextLayout]_vars

-----------------------------------------------------------------------------
(* Spec: renderWordCloud calls, label selections and their callbacks in any *)
(* order the timers allow, on one container                                 *)

Init ==
  /\ InitWith({NoData, SemicolonData})
  /\ containerOffsetWidth = 0

CallRenderWordCloud ==
  /\ Len(calls) < MaxCalls
  /\ \E source \in {SourceEmpty, SourceBlank, SourceSemicolon, SourceShort} :
       RenderWordCloud(source, 1280)

FireInitialTimeout ==
  \E i \in 1..Len(timers) :
    InitialTimeout(i, {0, 3}, {TRUE}, Advances, {DrawSmall}, FrameDelays)

SelectLabel ==
  /\ Len(passes) < MaxPasses
  /\ \E e \in 1..Len(container) : Select(e, {TRUE}, Advances, {DrawSmall}, FrameDelays)

FireAnimationFrame == \E i \in 1..Len(timers) : AnimationFrame(i)

FirePositionTimeout == \E i \in 1..Len(timers) : PositionTimeout(i, {0})

Next ==
  \/ CallRenderWordCloud
  \/ FireInitialTimeout
  \/ SelectLabel
  \/ FireAnimationFrame
  \/ FirePositionTimeout
  \/ Tick

Spec == Init /\ [][Next]_vars

-----------------------------------------------------------------------------
(* SpecSelect: as Spec, with selections of non-focused labels only, and     *)
(* every due callback eventually run by the event loop                      *)

SelectOtherLabel ==
  /\ Len(passes) < MaxPasses
  /\ \E e \in 1..Len(container) :
       /\ ~container[e].isCentered
       /\ Select(e, {TRUE}, Advances, {DrawSmall}, FrameDelays)

NextSelect ==
  \/ CallRenderWordCloud
  \/ FireInitialTimeout
  \/ SelectOtherLabel
  \/ FireAnimationFrame
  \/ FirePositionTimeout
  \/ Tick

\* the effect of the setTimeout(..., 50) callback on the timer queue alone:
\* enabled exactly when FirePositionTimeout is, and the steps of NextSelect
\* that remove a due position timer are the FirePositionTimeout steps
PositionDue ==
  \E i \in 1..Len(timers) :
    /\ timers[i].kind = "position"
    /\ fireable(i)
    /\ timers' = RemoveAt(timers, i)

SpecSelect ==
  /\ Init
  /\ [][NextSelect]_vars
  /\ WF_vars(FireInitialTimeout)
  /\ WF_vars(FireAnimationFrame)
  /\ WF_timers(PositionDue)
  /\ WF_vars(Tick)

-----------------------------------------------------------------------------
(* SpecHandOff: as Spec, with initial passes that may fail to get the       *)
(* canvas context, and every due callback eventually run by the event loop  *)

HandOffInitialTimeout ==
  \E i \in 1..Len(timers) :
    InitialTimeout(i, {0, 3}, BOOLEAN, Advances, {DrawSmall}, FrameDelays)

NextHandOff ==
  \/ CallRenderWordCloud
  \/ HandOffInitialTimeout
  \/ SelectLabel
  \/ FireAnimationFrame
  \/ FirePositionTimeout
  \/ Tick

SpecHandOff ==
  /\ Init
  /\ [][NextHandOff]_vars
  /\ WF_vars(HandOffInitialTimeout)
  /\ WF_vars(FireAnimationFrame)
  /\ WF_timers(PositionDue)
  /\ WF_vars(Tick)

-----------------------------------------------------------------------------
(* SpecRefocus: one renderWordCloud call on the README tag list, its        *)
(* initial pass with large and turned labels, and passes started by         *)
(* selecting the labels it placed                                           *)

RefocusRenderWordCloud ==
  /\ calls = <<>>
  /\ RenderWordCloud(SourceTags, 1280)

RefocusInitialTimeout ==
  \E i \in 1..Len(timers) :
    InitialTimeout(i, {0}, {TRUE}, Advances, {DrawSmall, DrawLargeTurned}, {0})

RefocusSelect ==
  /\ Len(passes) < MaxPasses
  /\ timers = <<>>
  /\ \E e \in 1..Len(container) : Select(e, {TRUE}, Advances, {DrawSmall}, {0})

NextRefocus ==
  \/ RefocusRenderWordCloud
  \/ RefocusInitialTimeout
  \/ RefocusSelect
  \/ FireAnimationFrame
  \/ FirePositionTimeout
  \/ Tick

SpecRefocus == Init /\ [][NextRefocus]_vars

-----------------------------------------------------------------------------
(* SpecPalette: the colour palette edited in the settings tab, around one   *)
(* renderWordCloud call and the label generation of its layout pass         *)

InitPalette ==
  /\ InitWith({NoData, StoredPalette, StoredEmptyPalette})
  /\ containerOffsetWidth = 0

PaletteRenderWordCloud ==
  /\ calls = <<>>
  /\ RenderWordCloud(SourceShort, 1280)

PaletteInitialTimeout ==
  \E i \in 1..Len(timers) :
    InitialTimeout(i, {0}, {TRUE}, Advances, {DrawSmall, DrawLargeTurned}, {0})

\* the palette controls exist once the tab is displayed
paletteShown == colorContainer # <<>> /\ Len(saves) < MaxSaves

\* a control is used when the save of the click before it has settled
paletteIdle == colorContainer # <<>> /\ saves = <<>>

PaletteDisplay == colorContainer = <<>> /\ Display

PaletteChangeColor ==
  /\ paletteIdle
  /\ ChangeColor(1, <<"#", "f", "f", "0", "0", "0", "0">>)

PaletteRemoveColor == paletteIdle /\ RemoveColor(1)

PaletteAddColor ==
  /\ paletteIdle
  /\ Len(palettes[settings.colorPalette]) < MaxColors
  /\ AddColor(3)

PaletteReset ==
  /\ paletteIdle
  /\ Len(palettes) < MaxArrays
  /\ ResetColorPalette

PaletteSaveSettled == \E i \in 1..Len(saves) : SaveSettled(i)

NextPalette ==
  \/ PaletteRenderWordCloud
  \/ PaletteInitialTimeout
  \/ Tick
  \/ PaletteDisplay
  \/ PaletteChangeColor
  \/ PaletteRemoveColor
  \/ PaletteAddColor
  \/ PaletteReset
  \/ PaletteSaveSettled

SpecPalette == InitPalette /\ [][NextPalette]_vars

-----------------------------------------------------------------------------
(* SpecSwatches: the settings tab displayed once, then clicks on the        *)
(* controls of the swatches that are in the palette container at that       *)
(* moment, while saves started by earlier clicks settle in any order        *)

InitSwatches ==
  /\ InitWith({StoredPalette})
  /\ containerOffsetWidth = 0

SwatchesDisplay == colorContainer = <<>> /\ Display

\* the items whose remove button takes a click
removable ==
  {e \in 1..Len(colorContainer) :
     colorContainer[e].tag = "item" /\ ~colorContainer[e].disabled}

SwatchesClickRemove ==
  /\ Len(saves) < MaxSaves
  /\ \E e \in removable : RemoveColor(colorContainer[e].index)

SwatchesChangeColor ==
  /\ paletteShown
  /\ colorContainer[1].tag = "item"
  /\ ChangeColor(colorContainer[1].index, <<"#", "f", "f", "0", "0", "0", "0">>)

SwatchesAddColor ==
  /\ paletteShown
  /\ Len(palettes[settings.colorPalette]) < MaxColors
  /\ AddColor(3)

\* the stored palette is reset once more than the bound allows elsewhere
SwatchesReset ==
  /\ paletteShown
  /\ Len(palettes) <= MaxArrays
  /\ ResetColorPalette

SwatchesSaveSettled == \E i \in 1..Len(saves) : SaveSettled(i)

NextSwatches ==
  \/ SwatchesDisplay
  \/ SwatchesClickRemove
  \/ SwatchesChangeColor
  \/ SwatchesAddColor
  \/ SwatchesReset
  \/ SwatchesSaveSettled

SpecSwatches == InitSwatches /\ [][NextSwatches]_vars

-----------------------------------------------------------------------------
(* SpecAwaited: the remove buttons with the handler of                      *)
(* src/unnamed/part_000, which renders the swatches again only when its     *)
(* save has settled                                                         *)

InitAwaited ==
  /\ InitWith({NoData, StoredPalette})
  /\ containerOffsetWidth = 0

AwaitedClickRemove ==
  /\ Len(saves) < MaxSaves
  /\ \E e \in removable : RemoveColorAwaited(colorContainer[e].index)

NextAwaited ==
  \/ SwatchesDisplay
  \/ AwaitedClickRemove
  \/ SwatchesSaveSettled

SpecAwaited == InitAwaited /\ [][NextAwaited]_vars

-----------------------------------------------------------------------------
(* SpecEdits: one renderWordCloud call, then the font size, spacing,        *)
(* separator and casing settings edited in the settings tab between the     *)
(* passes started by selecting labels of that cloud                         *)

InitEdits ==
  /\ InitWith({NoData, ManualSizes})
  /\ containerOffsetWidth = 0

EditsRenderWordCloud ==
  /\ calls = <<>>
  /\ RenderWordCloud(SourceShort, 1280)

EditsInitialTimeout ==
  \E i \in 1..Len(timers) :
    InitialTimeout(i, {0}, {TRUE}, Advances, {DrawSmall, DrawLargeTurned}, {0})

EditsSelect ==
  /\ Len(passes) < MaxPasses
  /\ timers = <<>>
  /\ \E e \in 1..Len(container) :
       Select(e, {TRUE}, Advances, {DrawSmall}, {0})

\* the settings tab is used once the cloud is on the page and while a label
\* can still be selected
editable == calls # <<>> /\ Len(passes) < MaxPasses

EditsToggleAutoFontSize == editable /\ SetAutoFontSize(FALSE)

EditsSetMin == editable /\ SetMinFontSize(<<"4", "0">>)

EditsSetMax == editable /\ SetMaxFontSize(<<"6", "0">>)

EditsToggleAutoSpacing == editable /\ SetAutoSpacing(FALSE)

EditsSetSpacing == editable /\ SetSpacing("compact")

EditsSetSeparator == editable /\ SetSeparator(" ")

EditsSetCasing == editable /\ SetCasing("uppercase")

NextEdits ==
  \/ EditsRenderWordCloud
  \/ EditsInitialTimeout
  \/ EditsSelect
  \/ FireAnimationFrame
  \/ FirePositionTimeout
  \/ Tick
  \/ EditsToggleAutoFontSize
  \/ EditsSetMin
  \/ EditsSetMax
  \/ EditsToggleAutoSpacing
  \/ EditsSetSpacing
  \/ EditsSetSeparator
  \/ EditsSetCasing

SpecEdits == InitEdits /\ [][NextEdits]_vars

-----------------------------------------------------------------------------
(* SpecFontSize: the font size settings edited in the settings tab, around  *)
(* one renderWordCloud call and the label generation of its layout pass     *)

InitFontSize ==
  /\ InitWith({NoData, ManualSizes})
  /\ containerOffsetWidth = 0

FontSizeRenderWordCloud ==
  /\ calls = <<>>
  /\ RenderWordCloud(SourceShort, 1280)

FontSizeInitialTimeout ==
  \E i \in 1..Len(timers) :
    InitialTimeout(i, {0}, {TRUE}, Advances, {DrawSmall, DrawLargeTurned}, {0})

FontSizeToggleAuto == \E value \in BOOLEAN : SetAutoFontSize(value)

\* "60", "8", "0", "12px", "abc" and ""
FontSizeTexts ==
  {<<"6", "0">>, <<"8">>, <<"0">>, <<"1", "2", "p", "x">>, <<"a", "b", "c">>, <<>>}

FontSizeSetMin == \E value \in FontSizeTexts : SetMinFontSize(value)

FontSizeSetMax == \E value \in FontSizeTexts : SetMaxFontSize(value)

NextFontSize ==
  \/ FontSizeRenderWordCloud
  \/ FontSizeInitialTimeout
  \/ Tick
  \/ FontSizeToggleAuto
  \/ FontSizeSetMin
  \/ FontSizeSetMax

SpecFontSize == InitFontSize /\ [][NextFontSize]_vars

-----------------------------------------------------------------------------
(* SpecSizing: renderWordCloud on sources of 1 .. MaxWordCount tokens, on a *)
(* narrow and on a wide surface, with automatic and manual sizing           *)

InitSizing ==
  /\ InitWith({NoData, ManualCompact, ManualSizes})
  /\ containerOffsetWidth \in {0, NarrowWidth}

SizingRenderWordCloud ==
  /\ calls = <<>>
  /\ \E n \in 1..MaxWordCount : RenderWordCloud(sourceOfCount(n), 1280)

NextSizing ==
  \/ SizingRenderWordCloud
  \/ Tick

SpecSizing == InitSizing /\ [][NextSizing]_vars

-----------------------------------------------------------------------------
(* SpecCasing: renderWordCloud on one phrase of 1 .. MaxPhraseWords words,  *)
(* with the casing as-is and title-case                                     *)

InitCasing ==
  /\ InitWith({NoData, StoredTitleCase})
  /\ containerOffsetWidth = 0

CasingRenderWordCloud ==
  /\ calls = <<>>
  /\ \E phrase \in Phrases : RenderWordCloud(join(phrase, " "), 1280)

NextCasing ==
  \/ CasingRenderWordCloud
  \/ Tick

SpecCasing == InitCasing /\ [][NextCasing]_vars

-----------------------------------------------------------------------------
(* SpecSpiral: positionWords of one pass, its forEach and while loop taken  *)
(* one iteration at a time (main.ts 378-490)                                *)

\* the state in which the position callback of the first pass starts: the
\* README tag list on a 360 or a 700 pixel surface, one of its first two
\* words focused
InitSpiral ==
  /\ containerOffsetWidth \in {0, NarrowWidth}
  /\ \E data \in {NoData, ManualCompact}, f \in 1..2 :
       LET st == loadSettings(data)
           heap == loadPalettes(data)
           words == tokenize(SourceTags, st)
           cl == callClosure(rawWordsOf(SourceTags, st), words, st, heap,
                             containerOffsetWidth, 1280)
           order == shuffledWords(words, words[f], [i \in 1..2 |-> i])
           temps == [i \in 1..Len(order) |->
                       wordData(order[i], words[f], cl, heap, TRUE, 55,
                                IF i = 1 THEN DrawSmall ELSE DrawLargeTurned)]
       IN /\ settings = st
          /\ palettes = heap
          /\ calls = <<cl>>
          /\ passes = <<[call |-> 1, centeredWord |-> words[f],
                         tempElements |-> temps, positionWords |-> TRUE,
                         state |-> "pending", placedElements |-> <<>>,
                         locals |-> <<>>, callsBefore |-> 1]>>
  /\ container = <<>>
  /\ timers = <<>>
  /\ errors = {}
  /\ colorContainer = <<>>
  /\ saves = <<>>
  /\ sp = [pc |-> "forEach", i |-> 1, placedElements |-> <<>>, spans |-> <<>>,
           locals |-> <<>>, placed |-> FALSE, spiralRadius |-> 0, angle |-> 0,
           angle0 |-> 0, attempts |-> 0]

spOrder == processingOrder(passes[1].tempElements, passes[1].centeredWord)

\* forEach takes the next label: the centered branch, or the start of the
\* spiral loop (lines 387-422)
SpiralForEach ==
  /\ sp.pc = "forEach"
  /\ sp.i <= Len(spOrder)
  /\ LET temp == spOrder[sp.i]
         r == placeCentered(temp, calls[1])
     IN IF temp.isCentered
        THEN sp' = [sp EXCEPT !.i = @ + 1,
                              !.placedElements = Append(@, r.rect),
                              !.spans = Append(@, spanOf(temp, 1, r.rect.centerX, r.rect.centerY)),
                              !.locals = Append(@, [placed |-> TRUE, attempts |-> 0, angle0 |-> 0])]
        ELSE \E d \in {0, 3} :
               sp' = [sp EXCEPT !.pc = "while", !.placed = FALSE,
                                !.spiralRadius = startRadiusR,
                                !.angle = startAngle(d), !.angle0 = startAngle(d),
                                !.attempts = 0]
  /\ UNCHANGED <<settings, palettes, container, calls, passes, timers, errors, containerOffsetWidth, colorContainer, saves>>

\* one iteration of the while loop (lines 424-485)
SpiralIterate ==
  /\ sp.pc = "while"
  /\ spiralContinue(sp.placed, sp.spiralRadius, sp.attempts, calls[1])
  /\ LET temp == spOrder[sp.i]
         hit == accepts(temp, calls[1], sp.placedElements, sp.spiralRadius, sp.angle)
         rect == testRect(temp, calls[1], sp.spiralRadius, sp.angle)
     IN sp' = [sp EXCEPT !.placed = hit,
                         !.placedElements = IF hit THEN Append(@, rect) ELSE @,
                         !.spans = IF hit
                                   THEN Append(@, spanOf(temp, 1, rect.centerX, rect.centerY))
                                   ELSE @,
                         !.angle = @ + 1,
                         !.spiralRadius = @ + radiusIncrementR(calls[1].spacingConfig),
                         !.attempts = @ + 1]
  /\ UNCHANGED <<settings, palettes, container, calls, passes, timers, errors, containerOffsetWidth, colorContainer, saves>>

\* the loop is left; an unplaced label's span is removed (lines 487-489)
SpiralExit ==
  /\ sp.pc = "while"
  /\ ~spiralContinue(sp.placed, sp.spiralRadius, sp.attempts, calls[1])
  /\ sp' = [sp EXCEPT !.pc = "forEach", !.i = @ + 1,
                      !.locals = Append(@, [placed |-> sp.placed, attempts |-> sp.attempts,
                                            angle0 |-> sp.angle0])]
  /\ UNCHANGED <<settings, palettes, container, calls, passes, timers, errors, containerOffsetWidth, colorContainer, saves>>

\* forEach is over: positionWords returns
SpiralReturn ==
  /\ sp.pc = "forEach"
  /\ sp.i > Len(spOrder)
  /\ sp' = [sp EXCEPT !.pc = "done"]
  /\ passes' = [passes EXCEPT ![1].state = "placed",
                              ![1].placedElements = sp.placedElements,
                              ![1].locals = sp.locals]
  /\ container' = container \o sp.spans
  /\ UNCHANGED <<settings, palettes, calls, timers, errors, containerOffsetWidth, colorContainer, saves>>

NextSpiral ==
  \/ SpiralForEach
  \/ SpiralIterate
  \/ SpiralExit
  \/ SpiralReturn

\* the callback runs to completion once it has started
SpecSpiral == InitSpiral /\ [][NextSpiral]_vars /\ WF_vars(NextSpiral)

-----------------------------------------------------------------------------
(* Properties of a layout pass *)

placedPasses == {p \in 1..Len(passes) : passes[p].state = "placed"}

\* the labels of pass p in the order positionWords processed them
orderOf(p) == processingOrder(passes[p].tempElements, passes[p].centeredWord)

\* the labels of pass p that positionWords placed
placedLabels(p) ==
  {i \in 1..Len(passes[p].locals) : passes[p].locals[i].placed}

\* position in placedElements of the rectangle of the placed label i
rectIndex(p, i) == Cardinality({j \in placedLabels(p) : j <= i})

\* the label whose rectangle is placedElements[k]
labelOfRect(p, k) == CHOOSE i \in placedLabels(p) : rectIndex(p, i) = k

\* the spans of pass p that are in the container
spansOf(p) ==
  LET ofPass(e) == e.tag = "span" /\ e.pass = p
  IN SelectSeq(container, ofPass)

\* twice the edges of the footprint of a rectangle, width and height swapped
\* for rotation +90 / -90, expanded by pad pixels on every side
turned(rect) == rect.rotation \in {90, -90}
left2(rect, pad) ==
  2 * rect.centerX - (IF turned(rect) THEN rect.height ELSE rect.width) - 200 * pad
right2(rect, pad) ==
  2 * rect.centerX + (IF turned(rect) THEN rect.height ELSE rect.width) + 200 * pad
top2(rect, pad) ==
  2 * rect.centerY - (IF turned(rect) THEN rect.width ELSE rect.height) - 200 * pad
bottom2(rect, pad) ==
  2 * rect.centerY + (IF turned(rect) THEN rect.width ELSE rect.height) + 200 * pad

disjoint(a, b, pad) ==
  \/ right2(a, pad) < left2(b, pad)
  \/ right2(b, pad) < left2(a, pad)
  \/ bottom2(a, pad) < top2(b, pad)
  \/ bottom2(b, pad) < top2(a, pad)

insideMargins(rect, cl) ==
  /\ left2(rect, 0) >= 200 * cl.spacingConfig.margin
  /\ right2(rect, 0) <= 200 * (cl.containerWidth - cl.spacingConfig.margin)
  /\ top2(rect, 0) >= 200 * cl.spacingConfig.margin
  /\ bottom2(rect, 0) <= 200 * (cl.containerHeight - cl.spacingConfig.margin)

\* the footprint of the label itself: the focused label is recorded at 1.5
\* times its size
ownFootprint(p, k) ==
  LET temp == orderOf(p)[labelOfRect(p, k)]
  IN [passes[p].placedElements[k] EXCEPT !.width = temp.width * 100,
                                         !.height = temp.height * 100]

\* C1: in every layout pass that has a focus word and has been positioned,
\* the focused label is placed, the centre of its rectangle and of its span is
\* the centre of the surface, and its rotation is 0
C1_FocusedLabelCentred ==
  \A p \in placedPasses :
    passes[p].centeredWord # <<>> =>
      LET cl == calls[passes[p].call]
      IN /\ \E i \in placedLabels(p) :
              /\ orderOf(p)[i].isCentered
              /\ orderOf(p)[i].word = passes[p].centeredWord
              /\ 2 * passes[p].placedElements[rectIndex(p, i)].centerX = 100 * cl.containerWidth
              /\ 2 * passes[p].placedElements[rectIndex(p, i)].centerY = 100 * cl.containerHeight
              /\ passes[p].placedElements[rectIndex(p, i)].rotation = 0
         /\ \A i \in 1..Len(orderOf(p)) : orderOf(p)[i].isCentered => i \in placedLabels(p)
         /\ \A e \in 1..Len(spansOf(p)) :
              spansOf(p)[e].isCentered =>
                /\ spansOf(p)[e].rotation = 0
                /\ \E i \in placedLabels(p) :
                     /\ orderOf(p)[i].isCentered
                     /\ 2 * spansOf(p)[e].left + 100 * orderOf(p)[i].width
                          = 100 * cl.containerWidth
                     /\ 2 * spansOf(p)[e].top + 100 * orderOf(p)[i].height
                          = 100 * cl.containerHeight

\* a positioned pass whose focused label and two more labels are in the container
C1_Witness ==
  \E p \in placedPasses :
    /\ passes[p].centeredWord # <<>>
    /\ Len(spansOf(p)) = 3
    /\ spansOf(p)[1].isCentered

\* C2: at the end of a layout pass the footprints of any two rectangles of
\* its placed-set, each expanded by the profile's padding, do not overlap; the
\* focused label is in the placed-set at 1.5 times its width and height
C2_NoPaddedOverlap ==
  \A p \in placedPasses :
    LET rects == passes[p].placedElements
        pad == calls[passes[p].call].spacingConfig.padding
    IN /\ \A a, b \in 1..Len(rects) : a < b => disjoint(rects[a], rects[b], pad)
       /\ \A k \in 1..Len(rects) :
            LET temp == orderOf(p)[labelOfRect(p, k)]
            IN /\ rects[k].rotation = temp.rotation
               /\ rects[k].width = (IF temp.isCentered THEN 150 ELSE 100) * temp.width
               /\ rects[k].height = (IF temp.isCentered THEN 150 ELSE 100) * temp.height

\* a positioned pass with three rectangles, one of them turned
C2_Witness ==
  \E p \in placedPasses :
    /\ Len(passes[p].placedElements) = 3
    /\ \E k \in 1..3 : turned(passes[p].placedElements[k])

\* C3 as stated: every placed label, the focused one included, has its
\* footprint inside the margins of the surface
C3_AllInsideMargins ==
  \A p \in placedPasses :
    \A k \in 1..Len(passes[p].placedElements) :
      insideMargins(ownFootprint(p, k), calls[passes[p].call])

\* C3 amended: every placed label other than the focused one has its
\* footprint inside the margins of the surface
C3_UnfocusedInsideMargins ==
  \A p \in placedPasses :
    \A k \in 1..Len(passes[p].placedElements) :
      ~orderOf(p)[labelOfRect(p, k)].isCentered =>
        insideMargins(passes[p].placedElements[k], calls[passes[p].call])

\* a positioned pass with a turned unfocused label placed next to a focused
\* label that is wider than the surface between its margins
C3_Witness ==
  \E p \in placedPasses :
    /\ ~insideMargins(ownFootprint(p, 1), calls[passes[p].call])
    /\ \E k \in 2..Len(passes[p].placedElements) : turned(passes[p].placedElements[k])

\* C4 as stated: a pass that could not get the canvas context generates its
\* labels with the approximate width, and its deferred callback runs
\* positionWords without throwing
C4_NoCanvasStillPositions ==
  \A p \in 1..Len(passes) :
    ~passes[p].positionWords =>
      /\ \A i \in 1..Len(passes[p].tempElements) :
           LET temp == passes[p].tempElements[i]
           IN 10 * (temp.width - 8) >= 6 * Len(temp.word) * temp.fontSize
              /\ 10 * (temp.width - 9) < 6 * Len(temp.word) * temp.fontSize
      /\ p \notin errors
      /\ passes[p].state # "threw"

\* C9: in a positioned pass the placed-set holds exactly the rectangles of
\* the placed labels and the container got exactly their spans, so a label
\* whose search was exhausted adds nothing; every label after it was still
\* searched, and was left unplaced only if no candidate of its own search was
\* inside the margins and free
C9_OnlyExhaustedLabelOmitted ==
  \A p \in placedPasses :
    LET cl == calls[passes[p].call]
        order == orderOf(p)
        locals == passes[p].locals
        rects == passes[p].placedElements
    IN /\ Len(locals) = Len(order)
       /\ Len(rects) = Cardinality(placedLabels(p))
       /\ Len(spansOf(p)) \in {0, Cardinality(placedLabels(p))}
       /\ \A e \in 1..Len(spansOf(p)) :
            spansOf(p)[e].text = order[labelOfRect(p, e)].word
       /\ \A i \in 1..Len(order) :
            ~order[i].isCentered =>
              /\ locals[i].attempts >= 1
              /\ ~locals[i].placed =>
                   /\ locals[i].attempts = exhaustedAttempts(cl)
                   /\ \A k \in 0..(locals[i].attempts - 1) :
                        ~accepts(order[i], cl, SubSeq(rects, 1, rectIndex(p, i)),
                                 spiralRadiusAt(cl, k), angleAt(locals[i].angle0, k))

\* a positioned pass in which a label was left unplaced and a later label
\* was placed
C9_Witness ==
  \E p \in placedPasses :
    \E i, j \in 1..Len(passes[p].locals) :
      /\ i < j
      /\ ~passes[p].locals[i].placed
      /\ passes[p].locals[j].placed
      /\ Len(spansOf(p)) = Cardinality(placedLabels(p))

\* the label elements in the container
spanElements == {e \in 1..Len(container) : container[e].tag = "span"}

\* the passes started by renderWords whose positionWords has not run yet
activePasses == {p \in 1..Len(passes) : passes[p].state = "pending"}

\* the container of pass p was cleared after its renderWords: by a later
\* renderWords or by a later renderWordCloud
stale(p) == p < Len(passes) \/ passes[p].callsBefore < Len(calls)

\* C5: once every timer and animation-frame callback has fired, the container
\* holds the labels of exactly one pass over the most recent call's word list
\* and no label of an earlier call
C5_OnePassOfLastCall ==
  (calls # <<>> /\ timers = <<>>) =>
    /\ \A e \in spanElements : passes[container[e].pass].call = Len(calls)
    /\ \A e1, e2 \in spanElements : container[e1].pass = container[e2].pass
    /\ calls[Len(calls)].words # <<>> => spanElements # {}

\* C6: the positionWords callback of a stale pass appends nothing to the
\* container
C6_StaleCallbackNoOp ==
  [][\A p \in 1..Len(passes) :
       (passes[p].state = "pending" /\ stale(p) /\ passes'[p].state # "pending")
         => container' = container]_vars

\* C7: at most one layout pass is active at any time
C7_AtMostOneActivePass == Cardinality(activePasses) <= 1

\* C8: after a renderWordCloud call with zero tokens, and until the next call,
\* the container holds the placeholder naming the separator and no label, and
\* no layout pass is scheduled for the call
C8_EmptyInputPlaceholderOnly ==
  (calls # <<>> /\ calls[Len(calls)].words = <<>>) =>
    /\ container = <<paragraph(placeholderText(effectiveSeparator(settings.separator)))>>
    /\ \A p \in 1..Len(passes) : passes[p].call # Len(calls)
    /\ \A i \in 1..Len(timers) :
         timers[i].kind = "initial" => timers[i].id # Len(calls)

\* C10: the spiral search of a label tests at most maxAttempts candidates
\* and none at a radius of 2 * max(width, height) or more, and positionWords
\* returns after the search of its last label
C10_SpiralSearchTerminates ==
  /\ [](sp.pc = "while" =>
          /\ sp.attempts <= maxAttempts
          /\ sp.attempts > 0 =>
               sp.spiralRadius - radiusIncrementR(calls[1].spacingConfig)
                 < 2 * Max(calls[1].containerWidth, calls[1].containerHeight) * 100000)
  /\ <>(sp.pc = "done")

\* positionWords has returned after a search that ran out of attempts
C10_Witness ==
  /\ sp.pc = "done"
  /\ \E i \in 1..Len(sp.locals) :
       /\ ~sp.locals[i].placed
       /\ sp.locals[i].attempts = maxAttempts

\* the loop taken step by step ends as the search computed at once
SpiralAgrees ==
  sp.pc = "done" =>
    LET r == positionWords([passes[1] EXCEPT !.state = "pending"], 1, calls[1],
                           [i \in 1..Len(sp.locals) |-> sp.locals[i].angle0])
    IN /\ r.placedElements = passes[1].placedElements
       /\ r.locals = passes[1].locals
       /\ r.spans = sp.spans

\* C14: every layout pass generates one label per token of the call's word
\* list, repeated words included, whichever word is focused
C14_OneLabelPerToken ==
  \A p \in 1..Len(passes) :
    Len(passes[p].tempElements) = Len(calls[passes[p].call].words)

\* C16: the surface width a pass uses in positionWords is the width the
\* container has when positionWords runs, after the deferred hand-off
C16_WidthReadAfterHandOff ==
  [][\A p \in 1..Len(passes) :
       (passes[p].state = "pending" /\ passes'[p].state = "placed"
          /\ containerOffsetWidth > 0)
         => calls[passes[p].call].containerWidth = containerOffsetWidth]_vars

\* the passes started by a selection: the first pass of a call is started by
\* the call's timer, every later one by a click or touchend on a label
selectedPass(p) == \E q \in 1..(p - 1) : passes[q].call = passes[p].call

\* C11: selecting a placed, non-focused label whose word is w starts a layout
\* pass of the same call with focus word w, every such pass is eventually
\* positioned, and its positioning puts a label for w at the surface centre
C11_SelectionRefocuses ==
  /\ [][\A p \in 1..Len(passes') :
          (p > Len(passes) /\ \E q \in 1..(p - 1) : passes'[q].call = passes'[p].call)
            => /\ passes'[p].state = "pending"
               /\ \E e \in 1..Len(container) :
                    /\ container[e].tag = "span"
                    /\ ~container[e].isCentered
                    /\ passes[container[e].pass].call = passes'[p].call
                    /\ container[e].text = passes'[p].centeredWord]_vars
  /\ [][\A p \in 1..Len(passes) :
          (selectedPass(p) /\ passes[p].state = "pending" /\ passes'[p].state # "pending")
            => \E e \in 1..Len(container') :
                 /\ container'[e].tag = "span"
                 /\ container'[e].pass = p
                 /\ container'[e].text = passes[p].centeredWord
                 /\ container'[e].isCentered
                 /\ container'[e].rotation = 0
                 /\ container'[e].left + 50 * passes[p].tempElements[1].width
                      = centerXC(calls[passes[p].call])
                 /\ container'[e].top + 50 * passes[p].tempElements[1].height
                      = centerYC(calls[passes[p].call])]_vars
  /\ []<>(\A p \in 1..Len(passes) : selectedPass(p) => passes[p].state = "placed")

\* a pass started by selecting a non-focused label has been positioned and
\* its label for the selected word is in the container at the centre
C11_Witness ==
  \E p \in 1..Len(passes), e \in 1..Len(container) :
    /\ selectedPass(p)
    /\ passes[p].state = "placed"
    /\ \E q \in 1..(p - 1) :
         /\ passes[q].call = passes[p].call
         /\ passes[q].centeredWord # passes[p].centeredWord
    /\ container[e].tag = "span"
    /\ container[e].pass = p
    /\ container[e].isCentered
    /\ container[e].text = passes[p].centeredWord
    /\ container[e].left + 50 * passes[p].tempElements[1].width
         = centerXC(calls[passes[p].call])

\* C12: 'Reset to defaults' sets the palette to exactly the five original
\* default colours, whatever was stored and whatever was edited before
C12_ResetRestoresDefaults ==
  [][settings'.colorPalette # settings.colorPalette
       => palettes'[settings'.colorPalette] = DefaultPalette]_vars

\* C13: every add, remove, change and reset leaves the palette with at least
\* one entry; a call whose configured palette is empty uses the default
\* array; every generated label takes its colour from the non-empty array of
\* its call
C13_PaletteNeverEmpty ==
  /\ [][(palettes' # palettes \/ settings'.colorPalette # settings.colorPalette)
          => Len(palettes'[settings'.colorPalette]) >= 1]_vars
  /\ [][\A c \in 1..Len(calls') :
          (c > Len(calls) /\ Len(palettes[settings.colorPalette]) = 0)
            => calls'[c].colors = DEFAULT_SETTINGS.colorPalette]_vars
  /\ [][\A p \in 1..Len(passes') :
          p > Len(passes) =>
            LET colors == palettes[calls[passes'[p].call].colors]
            IN /\ Len(colors) >= 1
               /\ \A i \in 1..Len(passes'[p].tempElements) :
                    \E k \in 1..Len(colors) :
                      passes'[p].tempElements[i].color = colors[k]]_vars

\* the palette has been cut down to one entry and a pass has generated its
\* labels from it
C13_Witness ==
  /\ Len(palettes[settings.colorPalette]) = 1
  /\ palettes[settings.colorPalette] # <<randomColor(3)>>
  /\ passes # <<>>
  /\ calls[passes[1].call].colors = settings.colorPalette
  /\ \A i \in 1..Len(passes[1].tempElements) :
       passes[1].tempElements[i].color = palettes[settings.colorPalette][1]

\* C15: the size range of every layout pass satisfies 0 < min <= max
C15_SizeRangeOrdered ==
  \A p \in 1..Len(passes) :
    /\ 0 < calls[passes[p].call].minFontSize
    /\ calls[passes[p].call].minFontSize <= calls[passes[p].call].maxFontSize

\* the range and the spacing profile of the README tables for a word count
desktopFontRange(n) ==
  IF n <= 10 THEN <<20, 56>>
  ELSE IF n <= 20 THEN <<16, 40>>
  ELSE IF n <= 40 THEN <<14, 32>>
  ELSE IF n <= 70 THEN <<12, 28>>
  ELSE <<10, 22>>

compactFontRange(n) ==
  IF n <= 10 THEN <<14, 32>>
  ELSE IF n <= 20 THEN <<12, 26>>
  ELSE IF n <= 40 THEN <<10, 20>>
  ELSE IF n <= 70 THEN <<9, 16>>
  ELSE <<8, 14>>

desktopSpacing(n) ==
  IF n <= 10 THEN "loose"
  ELSE IF n <= 20 THEN "comfortable"
  ELSE IF n <= 40 THEN "normal"
  ELSE "compact"

\* C17: with auto font size, the range of a call is a fixed function of its
\* word count and of the viewport class: on a desktop viewport 20-56 up to 10
\* words, 16-40 up to 20, 14-32 up to 40, 12-28 up to 70 and 10-22 above (45
\* words give 12-28); on a compact viewport the fixed entry of the second
\* table
C17_AutoFontSizeTable ==
  \A c \in 1..Len(calls) :
    (settings.autoFontSize /\ calls[c].words # <<>>) =>
      LET n == Len(calls[c].words)
          range == <<calls[c].minFontSize, calls[c].maxFontSize>>
      IN /\ calls[c].containerWidth >= 500 => range = desktopFontRange(n)
         /\ calls[c].containerWidth < 500 => range = compactFontRange(n)
         /\ (n = 45 /\ calls[c].containerWidth >= 500) => range = <<12, 28>>

\* a call of 45 words on a desktop viewport with auto font size
C17_Witness ==
  \E c \in 1..Len(calls) :
    /\ settings.autoFontSize
    /\ Len(calls[c].words) = 45
    /\ calls[c].containerWidth >= 500
    /\ calls[c].minFontSize = 12
    /\ calls[c].maxFontSize = 28

\* C18: with auto spacing, a desktop call gets the loose profile for 1-10
\* words, comfortable for 11-20, normal for 21-40 and compact above 40; a
\* compact-viewport call gets a profile whose padding, margin and spiralStep
\* are no larger than those of the desktop profile for the same count
C18_AutoSpacingTable ==
  \A c \in 1..Len(calls) :
    (settings.autoSpacing /\ calls[c].words # <<>>) =>
      LET desktop == SPACING_CONFIG[desktopSpacing(Len(calls[c].words))]
          used == calls[c].spacingConfig
      IN /\ calls[c].containerWidth >= 500 => used = desktop
         /\ calls[c].containerWidth < 500 =>
              /\ \E name \in DOMAIN SPACING_CONFIG : used = SPACING_CONFIG[name]
              /\ used.padding <= desktop.padding
              /\ used.margin <= desktop.margin
              /\ used.spiralStep10 <= desktop.spiralStep10

\* a compact-viewport call of 11-20 words with auto spacing, using a profile
\* tighter than the desktop one
C18_Witness ==
  \E c \in 1..Len(calls) :
    /\ settings.autoSpacing
    /\ Len(calls[c].words) \in 11..20
    /\ calls[c].containerWidth < 500
    /\ calls[c].spacingConfig.padding < SPACING_CONFIG["comfortable"].padding

\* an initial capital followed by lower-case letters
isCapitalized(word) ==
  /\ word # <<>>
  /\ \E i \in 1..26 : UpperChars[i] = word[1]
  /\ \A k \in 2..Len(word) : \E i \in 1..26 : LowerChars[i] = word[k]

\* a phrase of two or more capitalized words, none of them a small word
isTitleCasedPhrase(text) ==
  LET tokens == split(text, " ")
  IN /\ Len(tokens) > 1
     /\ \A k \in 1..Len(tokens) :
          isCapitalized(tokens[k]) /\ toLowerCase(tokens[k]) \notin smallWords

\* a phrase of capitalized non-small words ("Design Thinking") is a word of
\* the call unchanged
TitleCasedPhraseUnchanged ==
  \A c \in 1..Len(calls) :
    settings.casing = "title-case" =>
      \A i \in 1..Len(calls[c].words) :
        isTitleCasedPhrase(calls[c].rawWords[i]) =>
          calls[c].words[i] = calls[c].rawWords[i]

\* C19: the title-case transform is idempotent: applied to a word of a
\* title-case call, which is already its result, it returns that word
C19_TitleCaseIdempotent ==
  \A c \in 1..Len(calls) :
    settings.casing = "title-case" =>
      \A i \in 1..Len(calls[c].words) :
        applyCasing(calls[c].words[i], "title-case") = calls[c].words[i]

\* the title-case form the specification describes for text
titleCased(text) ==
  LET tokens == split(toLowerCase(text), " ")
      last == Len(tokens)
      initialCapital(token) ==
        IF token = <<>> THEN <<>> ELSE charToUpperCase(Head(token)) \o Tail(token)
  IN IF last = 1
     THEN charToUpperCase(Head(text)) \o toLowerCase(Tail(text))
     ELSE join([k \in 1..last |->
                  IF tokens[k] \in smallWords /\ k # 1 /\ k # last
                  THEN tokens[k]
                  ELSE initialCapital(tokens[k])], " ")

\* "the art of design" and "The Art of Design"
TheArtOfDesign ==
  <<"t", "h", "e", " ", "a", "r", "t", " ", "o", "f", " ",
    "d", "e", "s", "i", "g", "n">>
TheArtOfDesignTitled ==
  <<"T", "h", "e", " ", "A", "r", "t", " ", "o", "f", " ",
    "D", "e", "s", "i", "g", "n">>

\* C20: each word of a title-case call is its token lower-cased with the
\* first letter of every space-separated part capitalised, except the parts
\* in the small-word list, which stay lower-case unless first or last; a
\* token of one part has its first character capitalised and the rest
\* lower-cased; "the art of design" gives "The Art of Design"
C20_TitleCaseRule ==
  \A c \in 1..Len(calls) :
    settings.casing = "title-case" =>
      /\ Len(calls[c].words) = Len(calls[c].rawWords)
      /\ \A i \in 1..Len(calls[c].words) :
           /\ calls[c].words[i] = titleCased(calls[c].rawWords[i])
           /\ calls[c].rawWords[i] = TheArtOfDesign =>
                calls[c].words[i] = TheArtOfDesignTitled

\* a title-case call on "the art of design", whose word is "The Art of Design"
C20_Witness ==
  \E c \in 1..Len(calls) :
    /\ settings.casing = "title-case"
    /\ calls[c].rawWords = <<TheArtOfDesign>>
    /\ calls[c].words = <<TheArtOfDesignTitled>>

\* C21: at the end of a layout pass every label generated from the word list
\* is placed and has its span in the container; none is left unplaced
C21_AllLabelsPlaced ==
  \A p \in placedPasses :
    /\ \A i \in 1..Len(passes[p].locals) : passes[p].locals[i].placed
    /\ Len(passes[p].placedElements) = Len(passes[p].tempElements)
    /\ (~stale(p)) => Len(spansOf(p)) = Len(passes[p].tempElements)

\* the setTimeout(..., 50) callbacks of pass p in the timer queue ts
positionTimers(ts, p) ==
  {i \in 1..Len(ts) : ts[i].kind = "position" /\ ts[i].id = p}

\* renderWords leaves its pass pending with every label generated and an
\* animation frame requested; the pass leaves the pending state only in the
\* setTimeout callback that its animation-frame callback registered, when
\* that timer is due, and with the labels renderWords generated
HandOffOrder ==
  [][\A p \in 1..Len(passes') :
       /\ p > Len(passes) =>
            /\ passes'[p].state = "pending"
            /\ Len(passes'[p].tempElements)
                 = 1 + shuffledCount(calls[passes'[p].call].words, passes'[p].centeredWord)
            /\ \E i \in 1..Len(timers') :
                 timers'[i].kind = "frame" /\ timers'[i].id = p
            /\ \A i \in 1..Len(timers') :
                 timers'[i].kind = "position" => timers'[i].id # p
       /\ (p <= Len(passes) /\ passes[p].state = "pending"
             /\ passes'[p].state # "pending") =>
            /\ \E i \in 1..Len(timers) :
                 /\ timers[i].kind = "position"
                 /\ timers[i].id = p
                 /\ timers[i].remaining <= 0
            /\ passes'[p].tempElements = passes[p].tempElements
       /\ Cardinality(positionTimers(timers', p)) > Cardinality(positionTimers(timers, p)) =>
            /\ \E i \in positionTimers(timers', p) : timers'[i].remaining = positionDelay
            /\ \E j \in 1..Len(timers) :
                 /\ timers[j].kind = "frame"
                 /\ timers[j].id = p
                 /\ timers[j].remaining <= 0]_vars

\* every pass that got the canvas context is eventually positioned
CanvasPassesPlaced ==
  []<>(\A p \in 1..Len(passes) : passes[p].positionWords => passes[p].state = "placed")

\* C22: every layout request goes through label generation, the deferred
\* hand-off and positioning in this order, positionWords never running in
\* the turn of renderWords, and with every due callback eventually run every
\* request ends positioned
C22_LayoutStatesInOrder ==
  /\ HandOffOrder
  /\ []<>(\A p \in 1..Len(passes) : passes[p].state = "placed")

\* the labels of pass p generated with isCentered = true
centeredLabels(p) ==
  {i \in 1..Len(passes[p].tempElements) : passes[p].tempElements[i].isCentered}

\* number of copies of word w in the word list of call c
copiesOf(c, w) == Cardinality({i \in 1..Len(calls[c].words) : calls[c].words[i] = w})

\* C23: every layout pass has at most one label with isCentered = true, and
\* exactly one, the label of the focus word, when it has a focus word, also
\* when that word occurs several times in the word list
C23_OneFocusedLabel ==
  \A p \in 1..Len(passes) :
    /\ Cardinality(centeredLabels(p)) <= 1
    /\ passes[p].centeredWord # <<>> =>
         /\ Cardinality(centeredLabels(p)) = 1
         /\ \A i \in centeredLabels(p) :
              passes[p].tempElements[i].word = passes[p].centeredWord

\* a pass whose focus word occurs twice in the word list of its call
C23_Witness ==
  \E p \in 1..Len(passes) :
    /\ passes[p].centeredWord # <<>>
    /\ copiesOf(passes[p].call, passes[p].centeredWord) = 2
    /\ Cardinality(centeredLabels(p)) = 1

\* the font size of label i of pass p is the one the specification gives for
\* the size range of the pass
sizeInRange(p, i) ==
  LET cl == calls[passes[p].call]
      temp == passes[p].tempElements[i]
  IN IF temp.isCentered
     THEN temp.fontSize = ((cl.minFontSize + cl.maxFontSize) \div 2) + 10
     ELSE cl.minFontSize <= temp.fontSize /\ temp.fontSize <= cl.maxFontSize

\* the labels of the passes whose range has min <= max have the sizes the
\* specification gives
SizesWithinOrderedRange ==
  \A p \in 1..Len(passes) :
    calls[passes[p].call].minFontSize <= calls[passes[p].call].maxFontSize =>
      \A i \in 1..Len(passes[p].tempElements) : sizeInRange(p, i)

\* C24: every unfocused label's font size is within [min, max] of the size
\* range of its pass, auto or user-configured, and the focused label's font
\* size is floor((min + max) / 2) + 10
C24_FontSizeWithinRange ==
  \A p \in 1..Len(passes) :
    \A i \in 1..Len(passes[p].tempElements) : sizeInRange(p, i)

\* the labels of pass p are in descending order of width * height
areaDescending(p) ==
  \A i \in 1..(Len(passes[p].tempElements) - 1) :
    passes[p].tempElements[i].width * passes[p].tempElements[i].height
      >= passes[p].tempElements[i + 1].width * passes[p].tempElements[i + 1].height

\* C25: a positioned pass with a focus word processed its labels in the
\* order renderWords generated them, unsorted: the focused label first, placed
\* without a search as the first rectangle of the placed-set, and the
\* rectangles and spans of the placed labels in the generated order
C25_FocusFirstOrderKept ==
  \A p \in placedPasses :
    passes[p].centeredWord # <<>> =>
      LET temps == passes[p].tempElements
          rects == passes[p].placedElements
      IN /\ Len(passes[p].locals) = Len(temps)
         /\ temps[1].isCentered
         /\ passes[p].locals[1].placed
         /\ passes[p].locals[1].attempts = 0
         /\ rects[1].centerX = centerXC(calls[passes[p].call])
         /\ rects[1].centerY = centerYC(calls[passes[p].call])
         /\ \A k \in 1..Len(rects) :
              LET temp == temps[labelOfRect(p, k)]
              IN /\ rects[k].rotation = temp.rotation
                 /\ rects[k].width = (IF temp.isCentered THEN 150 ELSE 100) * temp.width
                 /\ rects[k].height = (IF temp.isCentered THEN 150 ELSE 100) * temp.height
         /\ \A e \in 1..Len(spansOf(p)) :
              /\ spansOf(p)[e].text = temps[labelOfRect(p, e)].word
              /\ spansOf(p)[e].rotation = temps[labelOfRect(p, e)].rotation

\* a positioned pass with a focus word whose three labels are all placed and
\* are not in descending order of area
C25_Witness ==
  \E p \in placedPasses :
    /\ passes[p].centeredWord # <<>>
    /\ ~areaDescending(p)
    /\ Len(passes[p].placedElements) = 3
    /\ Len(spansOf(p)) = 3

\* the spiral loop of the current label is about to test its first candidate
firstCandidate == sp.pc = "while" /\ sp.attempts = 0

\* the point (x, y) is outside the footprint of rect
outsideZone(x, y, rect) ==
  \/ 2 * Abs(x - rect.centerX) > footprintW(rect)
  \/ 2 * Abs(y - rect.centerY) > footprintH(rect)

\* the footprint of rect fits inside the circle of radius 120 pixels around
\* its centre: its half-diagonal is shorter than 120 pixels (the sides of a
\* rectangle are whole half pixels, 50 hundredths)
withinStartCircle(rect) ==
  (rect.width \div 50) * (rect.width \div 50)
    + (rect.height \div 50) * (rect.height \div 50) < (4 * 120) * (4 * 120)

\* C26 as stated: the search of every non-focused label starts at radius 120
\* whatever the spacing profile, and its first candidate centre is outside
\* the focused label's reserved zone, for every focused-label size
C26_FirstCandidateOutsideZone ==
  firstCandidate =>
    /\ sp.spiralRadius = 12000000
    /\ outsideZone(testCenterXC(calls[1], sp.spiralRadius, sp.angle),
                   testCenterYC(calls[1], sp.spiralRadius, sp.angle),
                   sp.placedElements[1])

\* C26 amended: the search of every non-focused label starts at radius 120
\* whatever the spacing profile, and its first candidate centre is outside
\* the focused label's reserved zone when that zone fits inside the circle
\* of radius 120 around the surface centre
C26_FirstCandidateOutsideSmallZone ==
  firstCandidate =>
    /\ sp.spiralRadius = 12000000
    /\ withinStartCircle(sp.placedElements[1]) =>
         outsideZone(testCenterXC(calls[1], sp.spiralRadius, sp.angle),
                     testCenterYC(calls[1], sp.spiralRadius, sp.angle),
                     sp.placedElements[1])

\* a search starting under the compact profile next to a focused label whose
\* reserved zone fits inside the circle
C26_Witness ==
  /\ firstCandidate
  /\ calls[1].spacingConfig = SPACING_CONFIG["compact"]
  /\ withinStartCircle(sp.placedElements[1])
  /\ sp.spiralRadius = 12000000
  /\ outsideZone(testCenterXC(calls[1], sp.spiralRadius, sp.angle),
                 testCenterYC(calls[1], sp.spiralRadius, sp.angle),
                 sp.placedElements[1])

\* the words of the labels pass p generated, as a bag
labelWords(p) ==
  LET temps == passes[p].tempElements
  IN [w \in {temps[i].word : i \in 1..Len(temps)} |->
        Cardinality({i \in 1..Len(temps) : temps[i].word = w})]

\* the word list of call c as a bag, the focus word w counted once
wordsFocusedOn(c, w) ==
  LET words == calls[c].words
  IN [v \in {words[i] : i \in 1..Len(words)} |->
        IF v = w THEN 1 ELSE Cardinality({i \in 1..Len(words) : words[i] = v})]

\* the words pass p left unplaced
unplacedWords(p) ==
  {orderOf(p)[i].word : i \in {j \in 1..Len(passes[p].locals) : ~passes[p].locals[j].placed}}

\* C27: no step changes the word list of a call made earlier, and every
\* pass, whatever was selected and whatever was left unplaced before,
\* generates its labels from all the words of that list: a word left unplaced
\* by one pass has a label in the next
C27_WordListNotMutated ==
  /\ [][\A c \in 1..Len(calls) :
          /\ calls'[c].words = calls[c].words
          /\ calls'[c].rawWords = calls[c].rawWords]_vars
  /\ [][\A p \in 1..Len(passes') :
          p > Len(passes) =>
            /\ labelWords(p)' = wordsFocusedOn(passes'[p].call, passes'[p].centeredWord)
            /\ \A q \in 1..Len(passes) :
                 (passes[q].call = passes'[p].call /\ passes[q].state = "placed") =>
                   unplacedWords(q) \subseteq DOMAIN labelWords(p)']_vars

\* a pass started by a selection has placed the word that the pass before
\* it left unplaced
C27_Witness ==
  \E p \in placedPasses :
    /\ p > 1
    /\ passes[p - 1].state = "placed"
    /\ unplacedWords(p - 1) # {}
    /\ \E i \in placedLabels(p) : orderOf(p)[i].word \in unplacedWords(p - 1)

\* C28: every layout pass has a focus word, and it is a word of the list of
\* its call: the initial pass focuses a word drawn from the list, every later
\* pass the word of the selected label; renderWords never runs with a null
\* focus, so positionWords processes the labels unsorted, the focus first
C28_FocusIsListMember ==
  /\ \A p \in 1..Len(passes) :
       /\ passes[p].centeredWord # <<>>
       /\ \E i \in 1..Len(calls[passes[p].call].words) :
            calls[passes[p].call].words[i] = passes[p].centeredWord
       /\ passes[p].tempElements[1].word = passes[p].centeredWord
       /\ orderOf(p) = passes[p].tempElements
  /\ \A e \in spanElements :
       \E i \in 1..Len(calls[passes[container[e].pass].call].words) :
         calls[passes[container[e].pass].call].words[i] = container[e].text

\* a positioned pass started by selecting a label of another word than the
\* one its call focused first
C28_Witness ==
  \E p \in placedPasses :
    /\ selectedPass(p)
    /\ \E q \in 1..(p - 1) :
         /\ passes[q].call = passes[p].call
         /\ passes[q].centeredWord # passes[p].centeredWord
    /\ passes[p].centeredWord # <<>>
    /\ \E e \in spanElements : container[e].pass = p /\ container[e].isCentered


-----------------------------------------------------------------------------
(* The values a cloud keeps from its renderWordCloud call *)

\* pass p generated and placed its labels with the size range, spacing
\* profile, surface size and word list that its call captured
usesClosure(p) ==
  LET cl == calls[passes[p].call]
      rects == passes[p].placedElements
  IN /\ \A i \in 1..Len(passes[p].tempElements) : sizeInRange(p, i)
     /\ labelWords(p) = wordsFocusedOn(passes[p].call, passes[p].centeredWord)
     /\ p \in placedPasses =>
          /\ \A a, b \in 1..Len(rects) :
               a < b => disjoint(rects[a], rects[b], cl.spacingConfig.padding)
          /\ \A k \in 1..Len(rects) :
               IF orderOf(p)[labelOfRect(p, k)].isCentered
               THEN /\ 2 * rects[k].centerX = 100 * cl.containerWidth
                    /\ 2 * rects[k].centerY = 100 * cl.containerHeight
               ELSE insideMargins(rects[k], cl)

\* the settings of the moment differ from what call c captured in the size
\* range, the spacing profile, the separator and the casing
editedSince(c) ==
  /\ ~settings.autoFontSize
  /\ settings.minFontSize > calls[c].maxFontSize
  /\ settings.maxFontSize > calls[c].maxFontSize
  /\ ~settings.autoSpacing
  /\ SPACING_CONFIG[settings.spacing] # calls[c].spacingConfig
  /\ tokenize(SourceShort, settings) # calls[c].words

\* C29: the size range, spacing profile, surface size and word list of a
\* cloud are fixed at its renderWordCloud call: no later step changes them,
\* and every pass of the cloud, the passes started by a selection included,
\* generates and places its labels with them, whatever font-size, spacing,
\* separator or casing settings are edited in between
C29_ClosureFixedAtCall ==
  /\ [][\A c \in 1..Len(calls) : calls'[c] = calls[c]]_vars
  /\ [](\A p \in 1..Len(passes) : usesClosure(p))

\* the last pass that can start was started by a selection and has been
\* positioned, after the font sizes, the spacing preset, the separator and
\* the casing had all been edited away from the values of the call
C29_Witness ==
  /\ Len(passes) = MaxPasses
  /\ MaxPasses \in placedPasses
  /\ selectedPass(MaxPasses)
  /\ Len(passes[MaxPasses].placedElements) > 1
  /\ editedSince(passes[MaxPasses].call)
  /\ settings.separator = " "
  /\ settings.casing = "uppercase"


-----------------------------------------------------------------------------
(* The remove buttons of the palette swatches *)

\* the palette the settings refer to
colorPalette == palettes[settings.colorPalette]

\* the step is a click on the remove button of item e, handled by the
\* handler of either source, with more than one colour in the palette
removeClicked(e) ==
  /\ e \in removable
  /\ Len(colorPalette) > 1
  /\ \/ RemoveColor(colorContainer[e].index)
     \/ RemoveColorAwaited(colorContainer[e].index)

\* the step removes the palette entry that item e displays, and no other
removesDisplayed(e) ==
  /\ colorContainer[e].index <= Len(colorPalette)
  /\ colorPalette[colorContainer[e].index] = colorContainer[e].value
  /\ colorPalette' = splice(colorPalette, colorContainer[e].index)

\* a save is pending whose handler has yet to render the swatches again
renderAwaited == \E i \in 1..Len(saves) : saves[i].then = "render"

\* while no handler is waiting to render the swatches, every remove click
\* removes the entry its swatch displays
FreshSwatchRemoved ==
  [][\A e \in 1..Len(colorContainer) :
       (removeClicked(e) /\ ~renderAwaited) => removesDisplayed(e)]_vars

\* C30: clicking the remove button of a colour swatch removes exactly the
\* palette entry that swatch displays, also when the click comes while a save
\* started by an earlier click is pending and the swatches have not been
\* rendered again
C30_RemoveDisplayedEntry ==
  [][\A e \in 1..Len(colorContainer) : removeClicked(e) => removesDisplayed(e)]_vars

=============================================================================
